---------------------------- MODULE Spec2Model ----------------------------
(***************************************************************************)
(* A model of the tile-world renderer / platformer sandbox:                *)
(*   - the fixed-step ticker (createTicker),                               *)
(*   - the asset-load barrier and the two atlas builders,                  *)
(*   - the GL resource manager, the game renderer and its renderables.     *)
(* Each component has its own specification; the variables of the other    *)
(* components stay at their initial values under it.                       *)
(***************************************************************************)
EXTENDS Integers, Sequences, FiniteSets, Bags, TLC

VARIABLES
  \* ---- ticker (createTicker's closure) ----
  isRunning,        \* let isRunning
  startTime,        \* let startTime (Undefined until start())
  tickIndex,        \* let tickIndex (Undefined until start())
  tickTimeHistory,  \* let tickTimeHistory: the last historyLen tick durations
  timers,           \* pending setTimeout(runTicks, ...) timers: a bag of the
                    \* times left until each is due
  now,              \* Date.now()
  callbackTime,     \* how long the tick callback takes (fixed at the first
                    \* start())
  starts,           \* the number of start() calls so far
  lastRun,          \* what the last step did (observation)
  \* ---- asset loading: the trackers and the two atlas builders ----
  assetProgresses,  \* tracker -> AssetLoadTracker.assetProgresses
  isFinished,       \* tracker -> AssetLoadTracker.isFinished
  loading,          \* builder -> the images in flight: [name, id] records
  images,           \* builder -> the names in this.textures / this.tileImages
  atlas,            \* builder -> the names rasterized into the atlas
  isReady,          \* builder -> texturePack.isReady / tileset.isReady
  generation,       \* builder -> what its last generation saw (observation)
  game,             \* what assetTracker.onfinished saw (observation)
  \* ---- the GL context, the resource manager and the renderer ----
  gpu,              \* the objects allocated in the GL context: id -> object
  programs,         \* glManager.programs: name -> program info
  buffers,          \* glManager.buffers: name -> buffer object
  textures,         \* glManager.textures: name -> texture object
  contextLost,      \* gl.isContextLost()
  isFirstPass,      \* renderer.isFirstPass
  glLast,           \* what the last manager call did (observation)
  \* ---- the world and the renderables ----
  world,            \* game.world: its width and height, in tiles
  tileData,         \* tileLayer.tileData: y -> x -> tile code
  needsUpdate,      \* tileLayer.needsUpdate
  worldTexture,     \* tileLayer.worldTexture: the encoded grid, or Null
  bgNeedsUpdate,    \* backgroundImage.needsUpdate
  entities,         \* the number of entities in world.entities
  frame,            \* what the last render call drew (observation)
  \* ---- the tileset loader and its tileset ----
  tileImages,       \* tilesetLoader.tileImages, in insertion order
  tileset,          \* the fields tileset.init() sets
  \* ---- the rectangle packer and the texture pack ----
  rects,            \* the rectangles (image sizes) given, in order
  packed,           \* what the last potpack call returned, with the
                    \* rectangles as it left them
  texturePack,      \* the fields texturePack.init() sets, with the atlas size
  located,          \* the last key given to getLocationOf and what came of it
  \* ---- the physics engine ----
  bodies,           \* world.entities: the entities with physics
  before,           \* world.entities as the last tick() found them
  physicalTiles,    \* world.physicalTiles.tileData: row -> column -> tile code
  \* ---- the transforms between bounding boxes ----
  box1,             \* the box points are taken from
  box2,             \* the box they are mapped to
  mapped,           \* a point of box1, where the transform from box1 to box2
                    \* takes it, and where the transform back takes that
  met,              \* box1.intersectWith(box2) and box1.union(box1)
  \* ---- the sprite batch ----
  sprites,          \* the rendering instructions given to renderSprites
  batch,            \* the draw calls the last renderSprites issued
  returns,          \* what getRenderingInstructions() of each entity returns
  \* ---- the game ----
  theGame           \* the game: whether it runs, its ticks, its player

tickerVars == <<isRunning, startTime, tickIndex, tickTimeHistory, timers, now,
                callbackTime, starts, lastRun>>

loaderVars == <<assetProgresses, isFinished, loading, images, atlas, isReady,
                generation, game>>

glVars == <<gpu, programs, buffers, textures, contextLost, isFirstPass, glLast>>

sceneVars == <<world, tileData, needsUpdate, worldTexture, bgNeedsUpdate, entities,
               frame>>

tilesetVars == <<tileImages, tileset>>

\* The variables of the components that are functions of their inputs.
packerVars == <<rects, packed, texturePack, located>>

physicsVars == <<bodies, before, physicalTiles>>

transformVars == <<box1, box2, mapped, met>>

spriteVars == <<sprites, batch, returns>>

gameVars == <<theGame>>

libVars == <<tilesetVars, packerVars, physicsVars, transformVars, spriteVars,
             gameVars>>

vars == <<tickerVars, loaderVars, glVars, sceneVars, libVars>>

Max(a, b) == IF a >= b THEN a ELSE b

(***************************************************************************)
(*                               TICKER                                    *)
(***************************************************************************)

\* Bounds of the ticker model.
TickLength == 1      \* the tick length, in clock units
MaxTime    == 14     \* the clock runs from 0 to MaxTime
MaxTimers  == 4      \* at most this many timers are pending at once
MaxStarts  == 3      \* start() is called at most this many times

\* Program constants.
maxTicksBeforeLagBack == 5
historyLen == 5

Undefined == -1

\* How long the tick callback may take: no time, less than a tick, more than
\* five ticks.
Durations == {0, TickLength - 1, 5 * TickLength + 1}

\* setTimeout(f, delay): the time until the timer is due; a negative delay
\* fires as soon as possible.
TimerDelay(delay) == Max(0, delay)

\* The pending timers after d units of time have passed.
Elapse(pending, d) == BagOfAll(LAMBDA x : Max(0, x - d), pending)

\* The closure state a scheduler invocation works on: st = startTime,
\* idx = tickIndex, t = the clock, hist = tickTimeHistory, calls = the number
\* of tick callbacks run so far in this invocation, resets = the number of
\* skipTicks() calls.
TickerState == [st |-> startTime, idx |-> tickIndex, t |-> now,
                hist |-> tickTimeHistory, calls |-> 0, resets |-> 0]

PushHistory(h, d) ==
  LET h1 == Append(h, d)
  IN IF Len(h1) > historyLen THEN Tail(h1) ELSE h1

\* doTick(), with a callback that takes d.
doTick(s, d) ==
  [s EXCEPT !.idx = @ + 1, !.t = @ + d, !.calls = @ + 1,
            !.hist = PushHistory(@, d)]

\* A skipTicks() that moves startTime but leaves tickIndex alone (faulty).
skipTicksKeepsIndex(s) == [s EXCEPT !.st = s.t, !.resets = @ + 1]

\* skipTicks()
skipTicks(s) == [s EXCEPT !.st = s.t, !.idx = 1, !.resets = @ + 1]

\* Whether the catch-up loop leaves after a tick (delta < tickLength).
CaughtUp(delta) == delta < TickLength

\* The for loop of the catch-up branch, from iteration i on: the set of
\* closure states it can end in, one per choice of callback durations.
RECURSIVE CatchUp(_, _)
CatchUp(i, s) ==
  IF i >= maxTicksBeforeLagBack THEN {s}
  ELSE UNION { LET s1 == doTick(s, d)
                   delta == s1.st + TickLength * s1.idx - s1.t
               IN IF CaughtUp(delta) THEN {s1}
                  ELSE IF delta > maxTicksBeforeLagBack * TickLength
                       THEN CatchUp(i + 1, skipTicks(s1))
                       ELSE CatchUp(i + 1, s1)
             : d \in {callbackTime} }

\* The branch runTicks takes.
\* A faulty variant: a tick that is ahead at all counts as early.
IsEarlyWhenAhead(expectedTime, currentTime) == expectedTime > currentTime

IsEarly(expectedTime, currentTime) == expectedTime > currentTime + TickLength
\* A faulty variant: a tick that is due now already counts as late.
IsBehindWhenDue(expectedTime, currentTime) == expectedTime <= currentTime

IsBehind(expectedTime, currentTime) == expectedTime < currentTime - TickLength
IsFarBehind(expectedTime, currentTime) ==
  expectedTime < currentTime - 5 * TickLength

Branch(expectedTime, currentTime) ==
  IF IsEarly(expectedTime, currentTime) THEN "early"
  ELSE IF IsBehind(expectedTime, currentTime)
       THEN IF IsFarBehind(expectedTime, currentTime) THEN "hardReset"
            ELSE "catchUp"
       ELSE "onTime"

\* The closure states in which the body of runTicks can end (before the
\* final setTimeout).
RunBody(s) ==
  LET expectedTime == s.st + TickLength * s.idx
      b == Branch(expectedTime, s.t)
  IN CASE b = "early"     -> {s}
       [] b = "hardReset" -> {skipTicks(s)}
       [] b = "catchUp"   -> CatchUp(0, s)
       [] b = "onTime"    -> {doTick(s, callbackTime)}

\* The timers the early branch sets on its own (it does not return, so the
\* final setTimeout follows).
EarlyTimers(s) ==
  LET expectedTime == s.st + TickLength * s.idx
  IN IF IsEarly(expectedTime, s.t)
     THEN <<TimerDelay(s.t - expectedTime)>>
     ELSE <<>>

\* The final setTimeout(runTicks, startTime + tickLength * tickIndex - Date.now()).
FinalTimers(s) == <<TimerDelay(s.st + TickLength * s.idx - s.t)>>

RECURSIVE SeqToBag(_)
SeqToBag(q) ==
  IF q = <<>> THEN EmptyBag ELSE SetToBag({Head(q)}) (+) SeqToBag(Tail(q))

\* What the last step did: the operation and, for a scheduler invocation, the
\* branch taken, the tick callbacks run, the skipTicks() calls and the delays
\* of the timers it set.
Op(name) == [op |-> name, branch |-> "none", calls |-> 0, resets |-> 0, set |-> <<>>]

TickerInit ==
  /\ isRunning = FALSE
  /\ startTime = Undefined
  /\ tickIndex = Undefined
  /\ tickTimeHistory = <<>>
  /\ timers = EmptyBag
  /\ now = 0
  /\ callbackTime = 0
  /\ starts = 0
  /\ lastRun = Op("init")

\* ticker.start()
Start ==
  /\ starts < MaxStarts
  /\ starts' = starts + 1
  /\ isRunning' = TRUE
  /\ startTime' = now
  /\ tickIndex' = 0
  /\ timers' = timers (+) SetToBag({TimerDelay(0)})
  /\ lastRun' = Op("start")
  /\ IF starts = 0 THEN callbackTime' \in Durations
     ELSE UNCHANGED callbackTime
  /\ UNCHANGED <<tickTimeHistory, now>>

\* ticker.stop()
Stop ==
  /\ isRunning' = FALSE
  /\ lastRun' = Op("stop")
  /\ UNCHANGED <<startTime, tickIndex, tickTimeHistory, timers, now,
                 callbackTime, starts>>

\* A runTicks without the isRunning test (faulty).
ReturnsNever == FALSE

\* if (!isRunning) return
ReturnsAtOnce == ~isRunning

\* A pending timer is due and runs runTicks().
RunTicks ==
  /\ BagIn(0, timers)
  /\ LET rest == timers (-) SetToBag({0})
     IN IF ReturnsAtOnce
        THEN /\ timers' = rest
             /\ lastRun' = [Op("runTicks") EXCEPT !.branch = "stopped"]
             /\ UNCHANGED <<isRunning, startTime, tickIndex,
                            tickTimeHistory, now, callbackTime, starts>>
        ELSE \E s \in RunBody(TickerState) :
               LET set == EarlyTimers(TickerState) \o FinalTimers(s)
               IN /\ s.t <= MaxTime
                  /\ BagCardinality(rest) + Len(set) <= MaxTimers
                  /\ timers' = Elapse(rest, s.t - now) (+) SeqToBag(set)
                  /\ startTime' = s.st
                  /\ tickIndex' = s.idx
                  /\ tickTimeHistory' = s.hist
                  /\ now' = s.t
                  /\ lastRun' =
                       [op |-> "runTicks",
                        branch |-> Branch(startTime + TickLength * tickIndex, now),
                        calls |-> s.calls, resets |-> s.resets, set |-> set]
                  /\ UNCHANGED <<isRunning, callbackTime, starts>>

\* The clock advances while nothing runs.
AdvanceTime ==
  /\ now < MaxTime
  /\ now' = now + 1
  /\ timers' = Elapse(timers, 1)
  /\ lastRun' = Op("wait")
  /\ UNCHANGED <<isRunning, startTime, tickIndex, tickTimeHistory,
                 callbackTime, starts>>

TickerNext == Start \/ Stop \/ RunTicks \/ AdvanceTime

\* The ticker at its nominal rate: start() is called once, with a callback
\* that takes less than a tick, ...
StartOnce ==
  /\ starts = 0
  /\ Start
  /\ callbackTime' < TickLength

\* ... and the clock only advances while no timer is due, so that every
\* timer runs runTicks() at the time it was set for.
WaitForTimer ==
  /\ ~BagIn(0, timers)
  /\ AdvanceTime

NominalNext == StartOnce \/ RunTicks \/ WaitForTimer

(***************************************************************************)
(*                 ASSET LOADING AND THE ATLAS BUILDERS                    *)
(***************************************************************************)

\* Bounds of the loader model.
MaxImages == 3       \* each builder is given at most this many images

ImageNames == 1 .. MaxImages

\* The texture packer and the tileset loader; each owns a sub-tracker, and
\* the global assetTracker holds one handle per builder.
Builders == {"texturePacker", "tilesetLoader"}
Trackers == Builders \cup {"assetTracker"}

\* The id of each builder's handle on the global tracker (the tileset loader
\* is constructed first). Ids count from 1 here, from 0 in the code.
GlobalHandle(b) == IF b = "tilesetLoader" THEN 1 ELSE 2

\* Progress 1 (complete), in the units the model counts progress in.
Done == 1

RECURSIVE SumSeq(_)
SumSeq(q) == IF q = <<>> THEN 0 ELSE Head(q) + SumSeq(Tail(q))

\* A markProgress that looks at the marked handle only (faulty).
AnyHandleDone(prog, x) == x = Done

\* markProgress's test: x === 1 and calculateProgress() === 1, the average
\* of all registered handles.
AllHandlesDone(prog, x) ==
  x = Done /\ SumSeq(prog) = Done * Len(prog)

\* The handles of a tracker that have not signalled completion.
Pending(prog) == {i \in DOMAIN prog : prog[i] # Done}

NoGeneration == [count |-> 0, pending |-> {}, images |-> {}, loaded |-> {}]

LoaderInit ==
  /\ assetProgresses = [t \in Trackers |->
                          IF t = "assetTracker" THEN <<0, 0>> ELSE <<>>]
  /\ isFinished = [t \in Trackers |-> FALSE]
  /\ loading = [b \in Builders |-> {}]
  /\ images = [b \in Builders |-> {}]
  /\ atlas = [b \in Builders |-> {}]
  /\ isReady = [b \in Builders |-> FALSE]
  /\ generation = [b \in Builders |-> NoGeneration]
  /\ game = [runs |-> 0, ready |-> [b \in Builders |-> FALSE]]

\* addTexture(name) / addTile(name): getHandle() registers a handle with
\* progress 0 and the image starts loading.
AddImage(b, n) ==
  /\ n \notin images[b]
  /\ \A l \in loading[b] : l.name # n
  /\ LET id == Len(assetProgresses[b]) + 1
     IN /\ assetProgresses' = [assetProgresses EXCEPT ![b] = Append(@, 0)]
        /\ loading' = [loading EXCEPT ![b] = @ \cup {[name |-> n, id |-> id]}]
  /\ UNCHANGED <<isFinished, images, atlas, isReady, generation, game>>

\* img.onload: handle() marks the image's handle complete; when that
\* completes the sub-tracker, its onfinished runs: the builder's handle on
\* the global tracker, then the generation (generateTexturePack /
\* generateTileset) from the image map as it is; when the global tracker
\* completes too, assetTracker.onfinished runs in between. Only then is the
\* image stored in the image map.
ImageLoaded(b, l) ==
  /\ l \in loading[b]
  /\ LET sub  == [assetProgresses[b] EXCEPT ![l.id] = Done]
         fire == AllHandlesDone(sub, Done)
         glob == IF fire
                 THEN [assetProgresses["assetTracker"]
                         EXCEPT ![GlobalHandle(b)] = Done]
                 ELSE assetProgresses["assetTracker"]
         globFire == fire /\ AllHandlesDone(glob, Done)
     IN /\ assetProgresses' = [assetProgresses EXCEPT
                                 ![b] = sub, !["assetTracker"] = glob]
        /\ isFinished' = [isFinished EXCEPT
                            ![b] = @ \/ fire,
                            !["assetTracker"] = @ \/ globFire]
        /\ game' = IF globFire
                   THEN [runs |-> game.runs + 1, ready |-> isReady]
                   ELSE game
        /\ atlas' = IF fire THEN [atlas EXCEPT ![b] = images[b]] ELSE atlas
        /\ isReady' = IF fire THEN [isReady EXCEPT ![b] = TRUE] ELSE isReady
        /\ generation' =
             IF fire
             THEN [generation EXCEPT ![b] =
                     [count |-> @.count + 1,
                      pending |-> Pending(sub),
                      images |-> images[b],
                      loaded |-> {n \in ImageNames :
                                    \/ n \in images[b]
                                    \/ n = l.name}]]
             ELSE generation
  /\ images' = [images EXCEPT ![b] = @ \cup {l.name}]
  /\ loading' = [loading EXCEPT ![b] = @ \ {l}]

LoaderNext ==
  \/ \E b \in Builders, n \in ImageNames : AddImage(b, n)
  \/ \E b \in Builders : \E l \in loading[b] : ImageLoaded(b, l)

(***************************************************************************)
(*                 THE GL CONTEXT AND THE RESOURCE MANAGER                 *)
(***************************************************************************)

\* Bounds of the resource manager model.
MaxObjects == 5      \* the direct manager calls stop at this many GL objects

\* The function f with key k set to v / without key k.
Put(f, k, v) == [x \in DOMAIN f \cup {k} |-> IF x = k THEN v ELSE f[x]]
Drop(f, k) == [x \in DOMAIN f \ {k} |-> f[x]]

\* The contents of a texture that no image was uploaded to.
NoData == [src |-> "none", px |-> <<>>]

NoError == ""

\* The id of the object the next gl.createX() returns: the lowest free one.
Fresh(g) ==
  CHOOSE i \in 1 .. Cardinality(DOMAIN g) + 1 :
    i \notin DOMAIN g /\ \A j \in 1 .. i - 1 : j \in DOMAIN g

\* The state a manager call works on: the GL objects, the three caches, the
\* ids of the objects created and the ids passed to gl.deleteX() so far in the
\* call, the value returned and the message of the error thrown.
GLState ==
  [gpu |-> gpu, programs |-> programs, buffers |-> buffers,
   textures |-> textures, created |-> {}, deleted |-> {},
   ret |-> Undefined, error |-> NoError]

\* gl.createShader / createProgram / createBuffer / createTexture
glCreate(m, kind) ==
  LET i == Fresh(m.gpu)
  IN [m EXCEPT !.gpu = Put(@, i, [kind |-> kind, data |-> NoData]),
               !.created = @ \cup {i},
               !.ret = i]

\* gl.deleteShader / deleteProgram / deleteBuffer / deleteTexture
glDelete(m, i) ==
  [m EXCEPT !.gpu = Drop(@, i), !.deleted = @ \cup {i}]

\* gl.texImage2D on texture tex
texImage2D(m, tex, data) ==
  [m EXCEPT !.gpu = Put(@, tex, [kind |-> "texture", data |-> data])]

\* gl.getShaderInfoLog / gl.getProgramInfoLog
InfoLog(what) == what \o " info log"

\* createShaderFromSource(gl, shaderType, source); succeeded is COMPILE_STATUS.
createShaderFromSource(m, shaderType, succeeded) ==
  LET m1 == glCreate(m, "shader")
  IN IF succeeded THEN m1
     ELSE [glDelete(m1, m1.ret) EXCEPT !.error = InfoLog(shaderType),
                                       !.ret = Undefined]

\* createGLProgram(gl, vertShader, fragShader); succeeded is LINK_STATUS.
createGLProgram(m, succeeded) ==
  LET m1 == glCreate(m, "program")
  IN IF succeeded THEN m1
     ELSE [glDelete(m1, m1.ret) EXCEPT !.error = InfoLog("program"),
                                       !.ret = Undefined]

hasProgram(m, programName) == programName \in DOMAIN m.programs
hasBuffer(m, bufferName) == bufferName \in DOMAIN m.buffers
hasTexture(m, name) == name \in DOMAIN m.textures

\* getProgram(programName): the program object of the cached program info,
\* Undefined when there is none.
getProgram(m, programName) ==
  [m EXCEPT !.ret = IF hasProgram(m, programName)
                    THEN m.programs[programName].program
                    ELSE Undefined]

\* A deleteProgram that forgets gl.deleteProgram (faulty).
deleteProgramKeepsObject(m, programName) ==
  IF ~hasProgram(m, programName) THEN m
  ELSE [m EXCEPT !.programs = Drop(@, programName)]

deleteProgram(m, programName) ==
  IF ~hasProgram(m, programName) THEN m
  ELSE [glDelete(m, m.programs[programName].program)
          EXCEPT !.programs = Drop(@, programName)]

\* How a createProgram call can go.
Outcomes == {"ok", "vertexFails", "fragmentFails", "linkFails"}

\* createProgram(programName, vertexShaderSource, fragmentShaderSource, ...):
\* the vertex shader, the fragment shader, then the program; the first
\* failure throws. (The attribute and uniform locations looked up for the
\* program info are not modelled.)
createProgram(m, programName, outcome) ==
  LET m0 == IF hasProgram(m, programName)
            THEN deleteProgram(m, programName) ELSE m
      v == createShaderFromSource(m0, "vertex shader", outcome # "vertexFails")
      f == createShaderFromSource(v, "fragment shader", outcome # "fragmentFails")
      p == createGLProgram(f, outcome # "linkFails")
  IN IF v.error # NoError THEN v
     ELSE IF f.error # NoError THEN f
     ELSE IF p.error # NoError THEN p
     ELSE [p EXCEPT !.programs = Put(@, programName, [program |-> p.ret])]

\* An onContextLost that keeps the texture cache (faulty).
onContextLostKeepsTextures(m) ==
  [m EXCEPT !.programs = <<>>, !.buffers = <<>>]

onContextLost(m) ==
  [m EXCEPT !.programs = <<>>, !.buffers = <<>>, !.textures = <<>>]

createBuffer(m, bufferName) ==
  IF hasBuffer(m, bufferName) THEN m
  ELSE LET m1 == glCreate(m, "buffer")
       IN [m1 EXCEPT !.buffers = Put(@, bufferName, m1.ret)]

getBuffer(m, bufferName) ==
  LET m1 == IF ~hasBuffer(m, bufferName) THEN createBuffer(m, bufferName)
            ELSE m
  IN [m1 EXCEPT !.ret = m1.buffers[bufferName]]

deleteBuffer(m, bufferName) ==
  IF ~hasBuffer(m, bufferName) THEN m
  ELSE LET m1 == getBuffer(m, bufferName)
       IN [glDelete(m1, m1.ret) EXCEPT !.buffers = Drop(@, bufferName)]

createTexture(m, name) ==
  LET m1 == glCreate(m, "texture")
  IN [m1 EXCEPT !.textures = Put(@, name, m1.ret)]

\* A getTexture that does not look in the cache (faulty).
getTextureAlwaysCreates(m, name) == createTexture(m, name)

\* this.textures[name] ?? this.createTexture(name)
getTexture(m, name) ==
  IF hasTexture(m, name) THEN [m EXCEPT !.ret = m.textures[name]]
  ELSE createTexture(m, name)

\* deleteTexture(name) goes through getTexture, which creates the texture if
\* there is none.
deleteTexture(m, name) ==
  LET m1 == getTexture(m, name)
  IN [glDelete(m1, m1.ret) EXCEPT !.textures = Drop(@, name)]

\* The ids of the renderables and of the two atlases.
BackgroundId == "backgroundImage"
TileLayerId == "tileLayer"
TilesetId == "tileset"
TexturePackId == "texturePack"
EntityGroupId == "entityGroup"

\* The names the direct calls are made with.
CalledPrograms == {"BackgroundImage", "TileLayer"}
CalledBuffers == {BackgroundId, TileLayerId}
CalledTextures == {BackgroundId, TilesetId}

\* What a manager call did: the objects it created, the ids it passed to
\* gl.deleteX(), what it returned, the error it threw, and how many cache
\* entries there were when it began.
GLOp(op, name, m) ==
  [op |-> op, name |-> name, created |-> m.created, deleted |-> m.deleted,
   ret |-> m.ret, error |-> m.error,
   cached |-> Cardinality(DOMAIN programs) + Cardinality(DOMAIN buffers)
                + Cardinality(DOMAIN textures)]

GLInit ==
  /\ gpu = <<>>
  /\ programs = <<>>
  /\ buffers = <<>>
  /\ textures = <<>>
  /\ contextLost = FALSE
  /\ isFirstPass = TRUE
  /\ glLast = GLOp("init", "", GLState)

\* A call of a manager method on a live context: the state it leaves.
Call(op, name, m) ==
  /\ ~contextLost
  /\ Cardinality(DOMAIN m.gpu) <= MaxObjects
  /\ gpu' = m.gpu
  /\ programs' = m.programs
  /\ buffers' = m.buffers
  /\ textures' = m.textures
  /\ glLast' = GLOp(op, name, m)
  /\ UNCHANGED <<contextLost, isFirstPass>>

CreateProgramCall(n, outcome) ==
  Call("createProgram", n, createProgram(GLState, n, outcome))
DeleteProgramCall(n) == Call("deleteProgram", n, deleteProgram(GLState, n))
GetProgramCall(n) == Call("getProgram", n, getProgram(GLState, n))
GetBufferCall(n) == Call("getBuffer", n, getBuffer(GLState, n))
DeleteBufferCall(n) == Call("deleteBuffer", n, deleteBuffer(GLState, n))
GetTextureCall(n) == Call("getTexture", n, getTexture(GLState, n))
DeleteTextureCall(n) == Call("deleteTexture", n, deleteTexture(GLState, n))

\* The webglcontextlost event: the context's objects are gone, and the
\* handler calls glManager.onContextLost().
ContextLost ==
  /\ ~contextLost
  /\ contextLost' = TRUE
  /\ gpu' = <<>>
  /\ LET m == onContextLost(GLState)
     IN /\ programs' = m.programs
        /\ buffers' = m.buffers
        /\ textures' = m.textures
        /\ glLast' = GLOp("contextLost", "", m)
  /\ UNCHANGED isFirstPass

\* The webglcontextrestored event: the handler calls renderer.init().
ContextRestored ==
  /\ contextLost
  /\ contextLost' = FALSE
  /\ isFirstPass' = TRUE
  /\ glLast' = GLOp("contextRestored", "", GLState)
  /\ UNCHANGED <<gpu, programs, buffers, textures>>

GLNext ==
  \/ \E n \in CalledPrograms, outcome \in Outcomes :
       CreateProgramCall(n, outcome)
  \/ \E n \in CalledPrograms : DeleteProgramCall(n)
  \/ \E n \in CalledPrograms : GetProgramCall(n)
  \/ \E n \in CalledBuffers : GetBufferCall(n)
  \/ \E n \in CalledBuffers : DeleteBufferCall(n)
  \/ \E n \in CalledTextures : GetTextureCall(n)
  \/ \E n \in CalledTextures : DeleteTextureCall(n)
  \/ ContextLost
  \/ ContextRestored

(***************************************************************************)
(*                    THE RENDERER AND THE RENDERABLES                     *)
(***************************************************************************)

\* Bounds of the scene model.
MaxEntities == 1     \* at most this many entities are added to the world

\* The sizes of the world, <<width, height>> in tiles: two tiles side by side
\* (the world the game starts with) or one above the other.
InitialSize == <<2, 1>>
WorldSizes == {InitialSize, <<1, 2>>}

Min(a, b) == IF a <= b THEN a ELSE b

\* The tiles of the tileset, in code order (codeToTiles without its first
\* entry; code 0 is air).
TileNames == <<"stone", "dirt">>
tileCount == Len(TileNames)

RECURSIVE CeilLog2(_)
CeilLog2(n) == IF n <= 1 THEN 0 ELSE 1 + CeilLog2((n + 1) \div 2)

\* generateTileset's atlas size, in tiles.
exponent == CeilLog2(tileCount + 2)
heightInTiles == 2 ^ ((exponent - (exponent % 2)) \div 2)
widthInTiles == (2 ^ exponent) \div heightInTiles

\* The values given to setTileAt: a number or a string.
Number(n) == [type |-> "number", num |-> n, name |-> ""]
String(str) == [type |-> "string", num |-> 0, name |-> str]
TileValues ==
  {Number(n) : n \in 0 .. tileCount}
    \cup {String(TileNames[i]) : i \in DOMAIN TileNames}
    \cup {String("air")}

\* tileset.indexOf(tilename)
indexOf(tilename) ==
  IF tilename = "air" THEN 0
  ELSE IF \E i \in DOMAIN TileNames : TileNames[i] = tilename
       THEN CHOOSE i \in DOMAIN TileNames : TileNames[i] = tilename
       ELSE -1

\* tileset.toCode(codeOrTile)
toCode(codeOrTile) ==
  IF codeOrTile.type = "number" THEN codeOrTile.num
  ELSE indexOf(codeOrTile.name)

tileInBounds(x, y) ==
  x >= 0 /\ x < world.width /\ y >= 0 /\ y < world.height

\* A store into a Uint8ClampedArray.
Uint8Clamped(x) == Max(0, Min(255, x))

\* The images textures are uploaded from.
Image(src) == [src |-> src, px |-> <<>>]

\* new TilesetLoader(tileSize = 16): the side of a tile in the atlas, in pixels.
tileSize == 16

\* Where generateTileset draws the tile of code i in the atlas: the pixel at
\* the corner of its cell, by ctx.drawImage(..., tileSize * (i %
\* textureWidthInTiles), tileSize * Math.floor(i / textureWidthInTiles), ...).
DrawnAt(i) == <<tileSize * (i % widthInTiles), tileSize * (i \div widthInTiles)>>

\* tileset.getTileCorner(index)
getTileCorner(index) ==
  LET cell == <<index % widthInTiles, index \div widthInTiles>>
  IN <<cell[1] * tileSize, cell[2] * tileSize>>

\* A faulty variant: the column and the row of the atlas change places.
renderRowsFirst(grid, width, height) ==
  [src |-> "worldTexture",
   px  |-> [k \in 1 .. 4 * width * height |->
              LET cell == (k - 1) \div 4
                  tile == grid[cell \div width][cell % width]
                  channel == (k - 1) % 4
              IN CASE channel = 0 -> Uint8Clamped(tile \div widthInTiles)
                   [] channel = 1 -> Uint8Clamped(tile % widthInTiles)
                   [] channel = 2 -> Uint8Clamped(0)
                   [] channel = 3 -> Uint8Clamped(255)]]

\* renderWorldToTexture(): four bytes per tile, row by row: the tile's column
\* in the atlas, its row in the atlas, the neighbour count (always 0), 255.
renderWorldToTexture(grid, width, height) ==
  [src |-> "worldTexture",
   px  |-> [k \in 1 .. 4 * width * height |->
              LET cell == (k - 1) \div 4
                  tile == grid[cell \div width][cell % width]
                  channel == (k - 1) % 4
              IN CASE channel = 0 -> Uint8Clamped(tile % widthInTiles)
                   [] channel = 1 -> Uint8Clamped(tile \div widthInTiles)
                   [] channel = 2 -> Uint8Clamped(0)
                   [] channel = 3 -> Uint8Clamped(255)]]

\* The state a render call works on: the manager state m and the fields of
\* the renderables, with the draw calls issued so far: for each, the contents
\* of the textures bound to units 0 and 1.
SceneState ==
  [m |-> GLState, needsUpdate |-> needsUpdate, worldTexture |-> worldTexture,
   bgNeedsUpdate |-> bgNeedsUpdate, draws |-> <<>>]

Draw(renderable, m, unit0, unit1) ==
  [renderable |-> renderable,
   unit0 |-> m.gpu[unit0].data,
   unit1 |-> IF unit1 = Undefined THEN NoData ELSE m.gpu[unit1].data]

\* glManager.getProgram(name) ?? glManager.createProgram(name, ...), with the
\* renderable's own shaders, which compile and link.
getOrCreateProgram(m, programName) ==
  IF hasProgram(m, programName) THEN getProgram(m, programName)
  ELSE createProgram(m, programName, "ok")

\* BackgroundImage.render(renderer)
BackgroundImageRender(sc) ==
  LET m1 == getOrCreateProgram(sc.m, "BackgroundImage")
      m2 == getBuffer(m1, BackgroundId)
      m3 == getTexture(m2, BackgroundId)
      texture == m3.ret
      m4 == IF sc.bgNeedsUpdate THEN texImage2D(m3, texture, Image("img"))
            ELSE m3
  IN [sc EXCEPT !.m = m4,
                !.bgNeedsUpdate = FALSE,
                !.draws = Append(@, Draw("BackgroundImage", m4, texture,
                                         Undefined))]

\* Tileset.getTextureObject(renderer) / TexturePack.getTextureObject(renderer)
getTextureObject(m, id, canvas) ==
  IF hasTexture(m, id) THEN getTexture(m, id)
  ELSE LET m1 == getTexture(m, id)
       IN texImage2D(m1, m1.ret, canvas)

\* The upload test without the first-pass case (faulty for the tile layer).
UploadsWhenDirtyOnly(dirty, firstPass) == dirty

\* if (this.needsUpdate || renderer.isFirstPass)
UploadsWorld(dirty, firstPass) == dirty \/ firstPass

\* TileLayer.render(renderer)
TileLayerRender(sc, firstPass) ==
  LET wt == IF sc.needsUpdate THEN renderWorldToTexture(tileData, world.width, world.height)
            ELSE sc.worldTexture
  IN IF wt = NoData THEN sc
     ELSE LET m1 == getTextureObject(sc.m, TilesetId, Image("tileset"))
              tilesetTexture == m1.ret
              m2 == getTexture(m1, TileLayerId)
              worldGLTexture == m2.ret
              m3 == IF UploadsWorld(sc.needsUpdate, firstPass)
                    THEN texImage2D(m2, worldGLTexture, wt)
                    ELSE m2
              m4 == getBuffer(m3, TileLayerId)
              m5 == getOrCreateProgram(m4, "TileLayer")
          IN [sc EXCEPT !.m = m5,
                        !.worldTexture = wt,
                        !.needsUpdate = FALSE,
                        !.draws = Append(@, Draw("TileLayer", m5,
                                                 tilesetTexture,
                                                 worldGLTexture))]

\* EntityGroup.render(renderer): one sprite per entity; renderSprites returns
\* at once when there is none.
EntityGroupRender(sc) ==
  IF entities = 0 THEN sc
  ELSE LET m1 == getTextureObject(sc.m, TexturePackId, Image("texturePack"))
           glTexturePack == m1.ret
           m2 == getOrCreateProgram(m1, "EntityGroup")
           m3 == getBuffer(m2, EntityGroupId \o "pos")
           m4 == getBuffer(m3, EntityGroupId \o "texCoord")
       IN [sc EXCEPT !.m = m4,
                     !.draws = Append(@, Draw("EntityGroup", m4,
                                              glTexturePack, Undefined))]

SceneOp(op) == [op |-> op, draws |-> <<>>]

\* tileLayer.clear(): everything is air.
clear(width, height) == [y \in 0 .. height - 1 |-> [x \in 0 .. width - 1 |-> 0]]

SceneInit ==
  /\ world = [width |-> InitialSize[1], height |-> InitialSize[2]]
  /\ tileData = clear(world.width, world.height)
  /\ needsUpdate = TRUE
  /\ worldTexture = NoData
  /\ bgNeedsUpdate = TRUE
  /\ entities = 0
  /\ frame = SceneOp("init")

\* tileLayer.setTileAt(x, y, v)
SetTileAt(x, y, v) ==
  /\ IF tileInBounds(x, y)
     THEN /\ tileData' = [tileData EXCEPT ![y][x] = toCode(v)]
          /\ needsUpdate' = TRUE
     ELSE UNCHANGED <<tileData, needsUpdate>>
  /\ frame' = SceneOp("setTileAt")
  /\ UNCHANGED <<world, worldTexture, bgNeedsUpdate, entities>>
  /\ UNCHANGED glVars

\* doImage: a world of another size is loaded: tileData, world.width and
\* world.height are replaced and the layer is marked.
LoadWorld(size) ==
  /\ world' = [width |-> size[1], height |-> size[2]]
  /\ tileData' = clear(size[1], size[2])
  /\ needsUpdate' = TRUE
  /\ frame' = SceneOp("loadWorld")
  /\ UNCHANGED <<worldTexture, bgNeedsUpdate, entities>>
  /\ UNCHANGED glVars

\* tileLayer.markUpdate()
MarkUpdate ==
  /\ needsUpdate' = TRUE
  /\ frame' = SceneOp("markUpdate")
  /\ UNCHANGED <<world, tileData, worldTexture, bgNeedsUpdate, entities>>
  /\ UNCHANGED glVars

\* world.entities.push(entity)
AddEntity ==
  /\ entities < MaxEntities
  /\ entities' = entities + 1
  /\ frame' = SceneOp("addEntity")
  /\ UNCHANGED <<world, tileData, needsUpdate, worldTexture, bgNeedsUpdate>>
  /\ UNCHANGED glVars

\* renderer.render([world.backgroundImage, world.physicalTiles,
\* world.entityGroup]), one frame of the render loop.
Render ==
  IF contextLost
  THEN /\ frame' = SceneOp("render")
       /\ UNCHANGED <<world, tileData, needsUpdate, worldTexture,
                      bgNeedsUpdate, entities>>
       /\ UNCHANGED glVars
  ELSE LET sc == EntityGroupRender(
                   TileLayerRender(BackgroundImageRender(SceneState),
                                   isFirstPass))
       IN /\ gpu' = sc.m.gpu
          /\ programs' = sc.m.programs
          /\ buffers' = sc.m.buffers
          /\ textures' = sc.m.textures
          /\ glLast' = GLOp("render", "", sc.m)
          /\ isFirstPass' = FALSE
          /\ needsUpdate' = sc.needsUpdate
          /\ worldTexture' = sc.worldTexture
          /\ bgNeedsUpdate' = sc.bgNeedsUpdate
          /\ frame' = [op |-> "render", draws |-> sc.draws]
          /\ UNCHANGED <<world, tileData, entities, contextLost>>

SceneNext ==
  \/ Render
  \/ \E x \in 0 .. world.width, y \in 0 .. world.height, v \in TileValues :
       SetTileAt(x, y, v)
  \/ \E size \in WorldSizes : LoadWorld(size)
  \/ MarkUpdate
  \/ AddEntity
  \/ ContextLost /\ UNCHANGED sceneVars
  \/ ContextRestored /\ UNCHANGED sceneVars

(***************************************************************************)
(*                     THE TILESET AND ITS CODE MAPPING                    *)
(***************************************************************************)

\* Bounds of the tileset model.
MaxTiles == 3        \* at most this many tiles are registered

\* The names tiles are registered under.
RegisteredNames == {"stone", "dirt", "grass"}

\* What tilenameOf returns for a code without a tile.
Null == "null"

\* The tileset before init().
NoTileset ==
  [isReady |-> FALSE, tileCodes |-> <<>>, codeToTiles |-> <<Null>>,
   tileCount |-> 0, widthInTiles |-> 0, heightInTiles |-> 0]

\* The entries of tileImages that are not skipped as invalid (wider or higher
\* than tileSize), in order.
ValidTiles(imgs) == SelectSeq(imgs, LAMBDA e : ~e.oversized)

\* generateTileset(): codes 1, 2, ... in the order of Object.entries;
\* codeToTiles starts with null (its entry for code c is at c + 1 here);
\* tileCount is codeToTiles.length - 1.
generateTileset(imgs) ==
  LET valid == ValidTiles(imgs)
      codeToTiles == <<Null>> \o [i \in 1 .. Len(valid) |-> valid[i].name]
      e == CeilLog2(Len(imgs) + 2)
      h == 2 ^ ((e - (e % 2)) \div 2)
  IN [isReady |-> TRUE,
      tileCodes |-> [n \in {valid[i].name : i \in DOMAIN valid} |->
                       CHOOSE i \in DOMAIN valid : valid[i].name = n],
      codeToTiles |-> codeToTiles,
      tileCount |-> Len(codeToTiles) - 1,
      widthInTiles |-> (2 ^ e) \div h,
      heightInTiles |-> h]

\* tileset.indexOf(tilename)
IndexOf(ts, tilename) ==
  IF tilename = "air" THEN 0
  ELSE IF tilename \in DOMAIN ts.tileCodes THEN ts.tileCodes[tilename]
       ELSE -1

\* tileset.tilenameOf(code)
TilenameOf(ts, code) ==
  IF code = 0 THEN "air"
  ELSE IF code < 0 \/ code >= ts.tileCount THEN Null
       ELSE ts.codeToTiles[code + 1]

\* tileset.toCode(codeOrTile)
ToCode(ts, codeOrTile) ==
  IF codeOrTile.type = "number" THEN codeOrTile.num
  ELSE IndexOf(ts, codeOrTile.name)

\* tileset.toTile(codeOrTile)
ToTile(ts, codeOrTile) ==
  IF codeOrTile.type = "string" THEN codeOrTile.name
  ELSE TilenameOf(ts, codeOrTile.num)

TilesetInit ==
  /\ tileImages = <<>>
  /\ tileset = NoTileset

\* A tile image has loaded: this.tileImages[tileName] = img.
TileLoaded(tileName, oversized) ==
  /\ Len(tileImages) < MaxTiles
  /\ \A i \in DOMAIN tileImages : tileImages[i].name # tileName
  /\ tileImages' = Append(tileImages, [name |-> tileName, oversized |-> oversized])
  /\ UNCHANGED tileset

\* The sub-tracker's onfinished: generateTileset() and tileset.init(...).
GenerateTileset ==
  /\ tileset' = generateTileset(tileImages)
  /\ UNCHANGED tileImages

TilesetNext ==
  \/ \E n \in RegisteredNames, oversized \in BOOLEAN : TileLoaded(n, oversized)
  \/ GenerateTileset

(***************************************************************************)
(*               THE RECTANGLE PACKER AND THE TEXTURE PACK                 *)
(***************************************************************************)

\* Bounds of the packer model.
MaxBoxes == 3        \* at most this many rectangles are packed

\* The widths and heights of the rectangles.
Sides == {3, 4, 8, 16}

\* The height of the first space, "unbounded at the bottom".
Infinity == 1000000

\* A rectangle before it is placed.
Box(w, h) == [w |-> w, h |-> h, x |-> Undefined, y |-> Undefined]

\* boxes.sort((a, b) => b.h - a.h): by height, descending, stable.
RECURSIVE InsertByHeight(_, _)
InsertByHeight(sorted, b) ==
  IF sorted = <<>> THEN <<b>>
  ELSE IF Head(sorted).h >= b.h
       THEN <<Head(sorted)>> \o InsertByHeight(Tail(sorted), b)
       ELSE <<b>> \o sorted

RECURSIVE SortByHeight(_)
SortByHeight(q) ==
  IF q = <<>> THEN <<>>
  ELSE InsertByHeight(SortByHeight(SubSeq(q, 1, Len(q) - 1)), q[Len(q)])

\* Math.ceil(Math.sqrt(area / 0.95)): the least n >= from with
\* n * n >= area / 0.95, that is 19 * n * n >= 20 * area.
RECURSIVE CeilSqrtOver95(_, _)
CeilSqrtOver95(area, from) ==
  IF 19 * from * from >= 20 * area THEN from
  ELSE CeilSqrtOver95(area, from + 1)

RECURSIVE TotalArea(_)
TotalArea(boxes) ==
  IF boxes = <<>> THEN 0
  ELSE Head(boxes).w * Head(boxes).h + TotalArea(Tail(boxes))

RECURSIVE MaxWidth(_)
MaxWidth(boxes) ==
  IF boxes = <<>> THEN 0 ELSE Max(Head(boxes).w, MaxWidth(Tail(boxes)))

\* A faulty variant: a box as wide or as high as the space does not fit.
FitsInside(box, space) == box.w < space.w /\ box.h < space.h

\* if (box.w > space.w || box.h > space.h) continue
Fits(box, space) == ~(box.w > space.w \/ box.h > space.h)

\* space.h -= box.h
SpaceMinus(h, d) == IF h = Infinity THEN Infinity ELSE h - d

\* A faulty variant: the space is left as it was.
BelowStaysPut(space, box) == space

\* space.y += box.h; space.h -= box.h
Below(space, box) ==
  [space EXCEPT !.y = @ + box.h, !.h = SpaceMinus(@, box.h)]

\* A faulty variant: the side of the box is left out.
ExtentOfCorner(sofar, corner, side) == Max(sofar, corner)

\* Math.max(width, box.x + box.w), Math.max(height, box.y + box.h)
Extent(sofar, corner, side) == Max(sofar, corner + side)

\* One round of potpack's outer loop: the box goes to the top-left corner of
\* the last space that can hold it, and the space shrinks, splits or goes.
\* p holds the spaces, the container size so far and the boxes done.
PlaceBox(p, box) ==
  LET candidates == {i \in DOMAIN p.spaces : Fits(box, p.spaces[i])}
  IN IF candidates = {} THEN [p EXCEPT !.boxes = Append(@, box)]
     ELSE
       LET i == CHOOSE c \in candidates : \A d \in candidates : d <= c
           space == p.spaces[i]
           below == Below(space, box)
           spaces1 ==
             IF box.w = space.w /\ box.h = space.h
             THEN LET last == p.spaces[Len(p.spaces)]
                      popped == SubSeq(p.spaces, 1, Len(p.spaces) - 1)
                  IN IF i <= Len(popped) THEN [popped EXCEPT ![i] = last]
                     ELSE popped
             ELSE IF box.h = space.h
             THEN [p.spaces EXCEPT ![i] = [space EXCEPT !.x = @ + box.w,
                                                        !.w = @ - box.w]]
             ELSE IF box.w = space.w
             THEN [p.spaces EXCEPT ![i] = below]
             ELSE Append([p.spaces EXCEPT ![i] = below],
                         [x |-> space.x + box.w, y |-> space.y,
                          w |-> space.w - box.w, h |-> box.h])
       IN [spaces |-> spaces1,
           width  |-> Extent(p.width, space.x, box.w),
           height |-> Extent(p.height, space.y, box.h),
           boxes  |-> Append(p.boxes, [box EXCEPT !.x = space.x,
                                                  !.y = space.y])]

RECURSIVE PlaceAll(_, _)
PlaceAll(p, boxes) ==
  IF boxes = <<>> THEN p
  ELSE PlaceAll(PlaceBox(p, Head(boxes)), Tail(boxes))

\* A faulty variant: without "|| 0", so that 0 / 0 stays NaN (0 / 0 here).
FillUnguarded(area, width, height) ==
  [num |-> area, den |-> width * height]

\* (area / (width * height)) || 0, as a fraction; Infinity is 1 / 0.
Fill(area, width, height) ==
  IF area = 0 THEN [num |-> 0, den |-> 1]
  ELSE IF width * height = 0 THEN [num |-> 1, den |-> 0]
  ELSE [num |-> area, den |-> width * height]

\* Math.max(Math.ceil(Math.sqrt(area / 0.95)), maxWidth)
startWidth(boxes) ==
  Max(CeilSqrtOver95(TotalArea(boxes), 0), MaxWidth(boxes))

\* potpack before its outer loop: a single empty space, unbounded at the
\* bottom, and a container of no size.
EmptyPacking(boxes) ==
  [spaces |-> <<[x |-> 0, y |-> 0, w |-> startWidth(boxes), h |-> Infinity]>>,
   width |-> 0, height |-> 0, boxes |-> <<>>]

\* potpack(boxes): the container and the boxes, sorted and placed.
potpack(boxes) ==
  LET area == TotalArea(boxes)
      p == PlaceAll(EmptyPacking(boxes), SortByHeight(boxes))
  IN [w |-> p.width, h |-> p.height, fill |-> Fill(area, p.width, p.height),
      boxes |-> p.boxes]

\* A faulty variant: the power of two above n, also when n is one.
Pow2Above(n) == IF n = 0 THEN 0 ELSE 2 * 2 ^ (CeilLog2(n + 1) - 1)

\* Math.pow(2, Math.ceil(Math.log2(n))); 0 for n = 0.
Pow2Ceil(n) == IF n = 0 THEN 0 ELSE 2 ^ CeilLog2(n)

\* generateTexturePack(): the images sorted by height, packed, and an atlas
\* with each side rounded up to a power of two.
generateTexturePack(imgs) ==
  LET result == potpack(SortByHeight(imgs))
  IN [isReady |-> TRUE,
      width |-> Pow2Ceil(result.w),
      height |-> Pow2Ceil(result.h),
      textureLocations |-> result.boxes,
      packing |-> result]

NotPacked == [w |-> 0, h |-> 0, fill |-> Fill(0, 0, 0), boxes |-> <<>>]

NoTexturePack ==
  [isReady |-> FALSE, width |-> 0, height |-> 0, textureLocations |-> <<>>,
   packing |-> NotPacked]

\* What a call comes to: a value, undefined, or a TypeError thrown.
Returns(v) == [outcome |-> "value", value |-> v]
ReturnsUndefined == [outcome |-> "undefined"]
ReturnsNull == [outcome |-> "null"]
ThrowsTypeError == [outcome |-> "TypeError"]

\* A faulty variant: a key that is not there gives null.
getLocationOrNull(tp, key) ==
  IF ~tp.isReady THEN ThrowsTypeError
  ELSE IF key \in DOMAIN tp.textureLocations
       THEN Returns(tp.textureLocations[key])
       ELSE ReturnsNull

\* texturePack.getLocationOf(key): this.textureLocations[key]; the images
\* are named by their places in the sorted list, and textureLocations is
\* not set until init().
getLocationOf(tp, key) ==
  IF ~tp.isReady THEN ThrowsTypeError
  ELSE IF key \in DOMAIN tp.textureLocations
       THEN Returns(tp.textureLocations[key])
       ELSE ReturnsUndefined

NotLocated == [key |-> 0, result |-> ReturnsUndefined]

PackerInit ==
  /\ located = NotLocated
  /\ rects = <<>>
  /\ packed = [NotPacked EXCEPT !.w = Undefined, !.h = Undefined]
  /\ texturePack = NoTexturePack

\* One more rectangle (an image of that size) is given.
AddBox(w, h) ==
  /\ Len(rects) < MaxBoxes
  /\ rects' = Append(rects, Box(w, h))
  /\ packed' = [NotPacked EXCEPT !.w = Undefined, !.h = Undefined]
  /\ texturePack' = NoTexturePack
  /\ located' = NotLocated

\* potpack(rects)
Potpack ==
  /\ packed' = potpack(rects)
  /\ located' = NotLocated
  /\ UNCHANGED <<rects, texturePack>>

\* texturePacker.generateTexturePack() with these images loaded.
GenerateTexturePack ==
  /\ texturePack' = generateTexturePack(rects)
  /\ packed' = texturePack'.packing
  /\ located' = NotLocated
  /\ UNCHANGED rects

\* texturePack.getLocationOf(key), for the first image and for a name no
\* image has.
GetLocationOf(key) ==
  /\ located' = [key |-> key, result |-> getLocationOf(texturePack, key)]
  /\ UNCHANGED <<rects, packed, texturePack>>

PackerNext ==
  \/ \E w \in Sides, h \in Sides : AddBox(w, h)
  \/ Potpack
  \/ GenerateTexturePack
  \/ \E key \in {1, MaxBoxes + 1} : GetLocationOf(key)

(***************************************************************************)
(*                          THE PHYSICS ENGINE                             *)
(***************************************************************************)

\* Bounds of the physics model.
MaxFall == 300       \* an entity is followed this far below the world

\* Lengths are in hundredths of a tile, velocities in hundredths of a tile
\* per tick; every length the model meets is a whole number of them.
Tile == 100

\* this.gravityAcceleration = -0.07 tiles per tick per tick
gravityAcceleration == -7

\* physicalTiles of the 3x3 world: air but for one solid tile at x = 1,
\* y = 2; rows and columns count from 0.
PhysicalTiles ==
  [y \in 0 .. 2 |-> [x \in 0 .. 2 |-> IF x = 1 /\ y = 2 THEN 1 ELSE 0]]

\* physicalTiles of a cave, 3 rows of 6 columns: a floor of three tiles in
\* row 0 (x = 3, 4, 5) and a wall tile on its right end (x = 5, y = 1).
CaveTiles ==
  [y \in 0 .. 2 |->
     [x \in 0 .. 5 |-> IF (y = 0 /\ x >= 3) \/ (y = 1 /\ x = 5) THEN 1 ELSE 0]]

\* physicalTiles.width and physicalTiles.height
PhysicalTilesWidth == Cardinality(DOMAIN physicalTiles[0])
PhysicalTilesHeight == Cardinality(DOMAIN physicalTiles)

\* Where entities are dropped, how fast, and their hitboxes.
DropX == Tile + Tile \div 2
DropHeights == {300, 350, 400, 450, 500}
DropVelocities == {0, -50, -150, -300}
Hitboxes == {<<100, 100>>, <<50, 50>>}

\* Where entities are placed in the cave, and how fast: over the seam of two
\* floor tiles or a little to its right, on the floor or above it, standing,
\* moving right towards the wall or left towards the edge of the floor.
PlaceXs == {4 * Tile, 4 * Tile + 10}
PlaceYs == {Tile, Tile + 10}
PlaceVelocityXs == {0, 50, -50}
PlaceVelocityYs == {0, -13}


\* Math.floor and Math.ceil of a length, in tiles.
Floor(a) == a \div Tile
Ceil(a) == -((-a) \div Tile)

\* A faulty variant: the direction is lost.
SignLost(a) == IF a = 0 THEN 0 ELSE 1

\* Math.sign
Sign(a) == IF a > 0 THEN 1 ELSE IF a < 0 THEN -1 ELSE 0

\* new BoundingBox(x, y, width, height)
BoundingBox(x, y, width, height) ==
  [x1 |-> x, y1 |-> y, width |-> width, height |-> height]

X2(b) == b.x1 + b.width
Y2(b) == b.y1 + b.height

\* entity.getHitbox(): the box stands on the position, centred over it.
getHitbox(entity) ==
  BoundingBox(entity.x - entity.hitboxWidth \div 2, entity.y,
              entity.hitboxWidth, entity.hitboxHeight)

shift(b, x, y) == [b EXCEPT !.x1 = @ + x, !.y1 = @ + y]

union(a, b) ==
  LET x1 == Min(a.x1, b.x1)
      y1 == Min(a.y1, b.y1)
  IN BoundingBox(x1, y1, Max(X2(a), X2(b)) - x1, Max(Y2(a), Y2(b)) - y1)

NoBox == [x1 |-> 0, y1 |-> 0, width |-> -1, height |-> -1]

\* A faulty variant: boxes that only touch do not intersect.
intersectWithInside(a, b) ==
  LET x1 == Max(a.x1, b.x1)
      y1 == Max(a.y1, b.y1)
      x2 == Min(X2(a), X2(b))
      y2 == Min(Y2(a), Y2(b))
  IN IF y1 < y2 /\ x1 < x2 THEN BoundingBox(x1, y1, x2 - x1, y2 - y1)
     ELSE NoBox

\* a.intersectWith(b): null (NoBox) if the boxes are apart.
intersectWith(a, b) ==
  LET x1 == Max(a.x1, b.x1)
      y1 == Max(a.y1, b.y1)
      x2 == Min(X2(a), X2(b))
      y2 == Min(Y2(a), Y2(b))
  IN IF y1 <= y2 /\ x1 <= x2 THEN BoundingBox(x1, y1, x2 - x1, y2 - y1)
     ELSE NoBox

\* A faulty variant: the slide is not slowed.
NotSlowed(v) == v

\* effectiveVelocity.x *= 0.74, to the hundredth of a tile per tick (towards
\* 0): exact for the multiples of 50.
Slowed(v) == IF v < 0 THEN -((-v * 74) \div 100) ELSE (v * 74) \div 100

\* What the loops change of an entity: nextPosition, effectiveVelocity and
\* onGround.
Motion(r) == [x |-> r.x, y |-> r.y, vx |-> r.vx, vy |-> r.vy,
              onGround |-> r.onGround]

\* A faulty variant: a tie goes to X.
ResolvesAlongXOnTie(intersection) == intersection.width <= intersection.height

\* if (intersection.width < intersection.height)
ResolvesAlongX(intersection) == intersection.width < intersection.height

\* The body of the two loops for the tile at (x, y): r holds nextPosition,
\* effectiveVelocity and onGround; nextHitbox and the signs of velocityUnit
\* were computed before the loops.
\* r.reads lists the tiles read so far and r.hits the tiles collided with,
\* each with the intersection and the motion before and after it.
Collide(r, nextHitbox, signX, signY, x, y) ==
  LET tile == physicalTiles[y][x]
      read == [r EXCEPT !.reads = Append(@, <<x, y>>)]
  IN
  IF tile = 0 THEN read
  ELSE
    LET intersection ==
          intersectWith(nextHitbox, BoundingBox(x * Tile, y * Tile, Tile, Tile))
        to ==
          IF ResolvesAlongX(intersection)
          THEN [read EXCEPT !.vx = 0, !.x = @ - intersection.width * signX]
          ELSE [read EXCEPT !.vy = 0, !.y = @ - intersection.height * signY,
                            !.vx = Slowed(r.vx), !.onGround = TRUE]
    IN IF intersection = NoBox THEN read
       ELSE [to EXCEPT !.hits = Append(@, [x |-> x, y |-> y,
                                           intersection |-> intersection,
                                           from |-> Motion(r),
                                           to |-> Motion(to)])]

\* A faulty variant: the loops are left at the first collision.
RECURSIVE CollideUntilHit(_, _, _, _, _, _, _, _, _)
CollideUntilHit(r, nextHitbox, signX, signY, x, y, ylow, xend, yend) ==
  IF x >= xend \/ r.hits # <<>> THEN r
  ELSE IF y >= yend
       THEN CollideUntilHit(r, nextHitbox, signX, signY, x + 1, ylow, ylow,
                            xend, yend)
       ELSE CollideUntilHit(Collide(r, nextHitbox, signX, signY, x, y),
                            nextHitbox, signX, signY, x, y + 1, ylow, xend,
                            yend)

\* The loops, x outside and y inside, from (x, y) on.
RECURSIVE CollideFrom(_, _, _, _, _, _, _, _, _)
CollideFrom(r, nextHitbox, signX, signY, x, y, ylow, xend, yend) ==
  IF x >= xend THEN r
  ELSE IF y >= yend
       THEN CollideFrom(r, nextHitbox, signX, signY, x + 1, ylow, ylow,
                        xend, yend)
       ELSE CollideFrom(Collide(r, nextHitbox, signX, signY, x, y),
                        nextHitbox, signX, signY, x, y + 1, ylow, xend, yend)

\* What tick() does to one entity.
tickEntity(entity) ==
  LET vx == entity.vx
      vy == entity.vy + gravityAcceleration
      hitbox == getHitbox(entity)
      nextHitbox == shift(hitbox, vx, vy)
      bbox == union(hitbox, nextHitbox)
      xmin == Floor(bbox.x1)
      xmax == Ceil(X2(bbox)) + 1
      ymin == Floor(bbox.y1)
      ymax == Ceil(Y2(bbox)) + 1
      r == CollideFrom([entity EXCEPT !.x = @ + vx, !.y = @ + vy,
                                      !.vx = vx, !.vy = vy,
                                      !.onGround = FALSE,
                                      !.reads = <<>>, !.hits = <<>>],
                       nextHitbox, Sign(vx), Sign(vy),
                       Max(xmin, 0), Max(ymin, 0), Max(ymin, 0),
                       Min(PhysicalTilesWidth, xmax),
                       Min(PhysicalTilesHeight, ymax))
  IN r

\* The for loop of tick() over the entities, from entity i on: an entity
\* without a velocity ends it (return).
RECURSIVE tickFrom(_, _)
tickFrom(list, i) ==
  IF i > Len(list) THEN list
  ELSE IF ~list[i].hasVelocity THEN list
       ELSE tickFrom([list EXCEPT ![i] = tickEntity(@)], i + 1)

\* new EntityWithPhysics() with its position, velocity and hitbox set;
\* from remembers the height and velocity it started with, reads and hits
\* what the last tick read and hit.
EntityWithPhysics(y, vy, hitbox) ==
  [x |-> DropX, y |-> y, vx |-> 0, vy |-> vy,
   hitboxWidth |-> hitbox[1], hitboxHeight |-> hitbox[2],
   onGround |-> FALSE, from |-> [y |-> y, vy |-> vy],
   hasVelocity |-> TRUE, reads |-> <<>>, hits |-> <<>>]

\* new Entity(): an entity that is drawn but has no velocity.
Entity ==
  [EntityWithPhysics(Tile, 0, <<Tile, Tile>>) EXCEPT !.hasVelocity = FALSE]

PhysicsInit ==
  /\ bodies = <<>>
  /\ before = <<>>
  /\ physicalTiles = PhysicalTiles

\* world.entities.push(entity), into the empty world.
DropEntity(y, vy, hitbox) ==
  /\ bodies = <<>>
  /\ bodies' = Append(bodies, EntityWithPhysics(y, vy, hitbox))
  /\ before' = <<>>
  /\ UNCHANGED physicalTiles

\* physicsEngine.tick()
PhysicsTick ==
  /\ bodies # <<>>
  /\ \A i \in DOMAIN bodies : bodies[i].y > -MaxFall
  /\ before' = bodies
  /\ bodies' = tickFrom(bodies, 1)
  /\ UNCHANGED physicalTiles

PhysicsNext ==
  \/ \E y \in DropHeights, vy \in DropVelocities, hitbox \in Hitboxes :
       DropEntity(y, vy, hitbox)
  \/ PhysicsTick

\* The cave is loaded into the empty world.
LoadCave ==
  /\ physicalTiles = PhysicalTiles
  /\ bodies = <<>>
  /\ physicalTiles' = CaveTiles
  /\ UNCHANGED <<bodies, before>>

\* world.entities.push(new Entity()): the first entity of the cave.
PushEntity ==
  /\ physicalTiles = CaveTiles
  /\ bodies = <<>>
  /\ bodies' = <<Entity>>
  /\ before' = <<>>
  /\ UNCHANGED physicalTiles

\* world.entities.push(entity): the one entity with physics of the cave, a
\* 1x1 hitbox placed at (x, y) with velocity (vx, vy).
PlaceEntity(x, y, vx, vy) ==
  /\ physicalTiles = CaveTiles
  /\ \A i \in DOMAIN bodies : ~bodies[i].hasVelocity
  /\ bodies' = Append(bodies, [EntityWithPhysics(y, vy, <<Tile, Tile>>)
                                 EXCEPT !.x = x, !.vx = vx])
  /\ before' = <<>>
  /\ UNCHANGED physicalTiles

CaveNext ==
  \/ LoadCave
  \/ PushEntity
  \/ \E x \in PlaceXs, y \in PlaceYs, vx \in PlaceVelocityXs,
         vy \in PlaceVelocityYs : PlaceEntity(x, y, vx, vy)
  \/ PhysicsTick

\* A room: a floor three tiles wide and, three tiles up, one tile of ceiling
\* over its middle.
RoomTiles ==
  [y \in 0 .. 3 |->
     [x \in 0 .. 2 |-> IF y = 0 \/ (y = 3 /\ x = 1) THEN 1 ELSE 0]]

\* Where the player is put in the room: under the ceiling, half under it, or
\* beside it; on the floor or a little above it.
PlayerXs == {150, 200, 50}
PlayerYs == {Tile, Tile + 10}

\* this.velocity.y += 0.7
jumpVelocity == 70

\* The room is loaded into the empty world.
LoadRoom ==
  /\ physicalTiles = PhysicalTiles
  /\ bodies = <<>>
  /\ physicalTiles' = RoomTiles
  /\ UNCHANGED <<bodies, before>>

\* world.entities.push(player): a 1x1 hitbox at rest at (x, y).
PlacePlayer(x, y) ==
  /\ physicalTiles = RoomTiles
  /\ bodies = <<>>
  /\ bodies' = <<[EntityWithPhysics(y, 0, <<Tile, Tile>>) EXCEPT !.x = x]>>
  /\ before' = <<>>
  /\ UNCHANGED physicalTiles

\* player.jump(), on a key press, at most once between two ticks: nothing
\* happens unless the player is on the ground.
PressJump ==
  /\ physicalTiles = RoomTiles
  /\ before # <<>>
  /\ bodies[1].onGround
  /\ bodies' = [bodies EXCEPT ![1].vy = @ + jumpVelocity]
  /\ before' = <<>>
  /\ UNCHANGED physicalTiles

RoomNext ==
  \/ LoadRoom
  \/ \E x \in PlayerXs, y \in PlayerYs : PlacePlayer(x, y)
  \/ PressJump
  \/ PhysicsTick

(***************************************************************************)
(*                 THE TRANSFORMS BETWEEN BOUNDING BOXES                   *)
(***************************************************************************)

\* The corners and the sizes of the boxes.
Corners == {-1, 2}
Extents == {1, 2, 3}

\* Slopes, intercepts and coordinates are fractions in lowest terms with a
\* positive denominator, so that equal numbers are equal records.
RECURSIVE GCD(_, _)
GCD(a, b) == IF b = 0 THEN a ELSE GCD(b, a % b)

Abs(a) == IF a < 0 THEN -a ELSE a

Rat(n, d) ==
  LET g == GCD(Abs(n), Abs(d))
  IN [n |-> (Sign(d) * n) \div g, d |-> Abs(d) \div g]

Whole(k) == Rat(k, 1)
Plus(a, b) == Rat(a.n * b.d + b.n * a.d, a.d * b.d)
Times(a, b) == Rat(a.n * b.n, a.d * b.d)
Over(a, b) == Rat(a.n * b.d, a.d * b.n)
Negated(a) == Rat(-a.n, a.d)

\* A faulty variant: a flip negates the slope and leaves the intercept.
AxisFlipsSlopeOnly(from1, size1, from2, size2, flip) ==
  LET m == Over(Whole(1), Whole(size1))
      b == Over(Whole(-from1), Whole(size1))
      m1 == IF flip THEN Times(m, Whole(-1)) ELSE m
  IN [m |-> Times(m1, Whole(size2)),
      b |-> Plus(Times(b, Whole(size2)), Whole(from2))]

\* getReducedTransform along one axis: the slope and the intercept that take
\* [from1, from1 + size1] to [from2, from2 + size2], turned round if flip.
Axis(from1, size1, from2, size2, flip) ==
  LET m == Over(Whole(1), Whole(size1))
      b == Over(Whole(-from1), Whole(size1))
      m1 == IF flip THEN Times(m, Whole(-1)) ELSE m
      b1 == IF flip THEN Plus(Whole(1), Negated(b)) ELSE b
  IN [m |-> Times(m1, Whole(size2)),
      b |-> Plus(Times(b1, Whole(size2)), Whole(from2))]

\* BoundingBox.getReducedTransform(box1, box2, flipX, flipY)
getReducedTransform(b1, b2, flipX, flipY) ==
  LET x == Axis(b1.x1, b1.width, b2.x1, b2.width, flipX)
      y == Axis(b1.y1, b1.height, b2.y1, b2.height, flipY)
  IN [x_m |-> x.m, x_b |-> x.b, y_m |-> y.m, y_b |-> y.b]

\* vec.transform({x_m, x_b, y_m, y_b})
transform(v, t) ==
  [x |-> Plus(Times(t.x_m, v.x), t.x_b), y |-> Plus(Times(t.y_m, v.y), t.y_b)]

\* The point of the box i halves of its width and j halves of its height
\* from its corner.
PointOf(b, i, j) ==
  [x |-> Plus(Whole(b.x1), Rat(i * b.width, 2)),
   y |-> Plus(Whole(b.y1), Rat(j * b.height, 2))]

NotMapped == [done |-> FALSE]

NotMet == [done |-> FALSE]

TransformInit ==
  /\ box1 = NoBox
  /\ box2 = NoBox
  /\ mapped = NotMapped
  /\ met = NotMet

\* new BoundingBox(x, y, width, height), the first of the two boxes.
ChooseBox1(x, y, width, height) ==
  /\ box1 = NoBox
  /\ box1' = BoundingBox(x, y, width, height)
  /\ UNCHANGED <<box2, mapped, met>>

\* new BoundingBox(x, y, width, height), the second one.
ChooseBox2(x, y, width, height) ==
  /\ box1 # NoBox /\ box2 = NoBox
  /\ box2' = BoundingBox(x, y, width, height)
  /\ UNCHANGED <<box1, mapped, met>>

\* point.transform(getReducedTransform(box1, box2, flipX, flipY))
\*      .transform(getReducedTransform(box2, box1, flipX, flipY))
ThereAndBack(flipX, flipY, i, j) ==
  /\ box2 # NoBox /\ mapped = NotMapped
  /\ LET point == PointOf(box1, i, j)
         there == transform(point, getReducedTransform(box1, box2, flipX, flipY))
         back == transform(there, getReducedTransform(box2, box1, flipX, flipY))
     IN mapped' = [done |-> TRUE, flipX |-> flipX, flipY |-> flipY,
                   point |-> point, there |-> there, back |-> back]
  /\ UNCHANGED <<box1, box2, met>>

\* box1.intersectWith(box2) and box1.union(box1)
Meet ==
  /\ box2 # NoBox /\ met = NotMet
  /\ met' = [done |-> TRUE, intersection |-> intersectWith(box1, box2),
              union |-> union(box1, box1)]
  /\ UNCHANGED <<box1, box2, mapped>>

TransformNext ==
  \/ Meet
  \/ \E x \in Corners, y \in Corners, width \in Extents, height \in Extents :
       \/ ChooseBox1(x, y, width, height)
       \/ ChooseBox2(x, y, width, height)
  \/ \E flipX \in BOOLEAN, flipY \in BOOLEAN, i \in 0 .. 2, j \in 0 .. 2 :
       ThereAndBack(flipX, flipY, i, j)

(***************************************************************************)
(*                           THE SPRITE BATCH                              *)
(***************************************************************************)

\* Bounds of the sprite model.
MaxSprites == 2      \* at most this many instructions are given

\* The rectangles instructions name, as <<x1, y1, x2, y2>>: where to draw
\* in tile space and what part of the texture pack to draw. The coordinates
\* are whole numbers, which a Float32Array holds unchanged.
TileRects == {<<0, 1, 1, 0>>, <<2, 5, 3, 3>>}
TextureRects == {<<0, 0, 16, 16>>, <<16, 0, 24, 8>>}

\* A faulty variant: the first triangle twice.
SameTriangleTwice(c) ==
  <<c[1], c[2], c[3], c[4], c[1], c[4], c[1], c[2], c[3], c[4], c[1], c[4]>>

\* The twelve coordinates renderSprites writes for a rectangle c: the
\* triangle (x1,y1) (x2,y2) (x1,y2) and the triangle (x1,y1) (x2,y2) (x2,y1).
RectangleVertices(c) ==
  <<c[1], c[2], c[3], c[4], c[1], c[4], c[1], c[2], c[3], c[4], c[3], c[2]>>

RECURSIVE VertexArray(_, _)
VertexArray(instructions, field) ==
  IF instructions = <<>> THEN <<>>
  ELSE RectangleVertices(Head(instructions)[field])
         \o VertexArray(Tail(instructions), field)

\* gl.bindBuffer(gl.ARRAY_BUFFER, buffer); gl.bufferData(..., array, ...)
bufferData(m, buffer, array) ==
  [m EXCEPT !.gpu = Put(@, buffer, [kind |-> "buffer",
                                    data |-> [src |-> "array", px |-> array]])]

\* gl.drawArrays(mode, first, count), with what is bound at the call: the
\* buffers of the two attributes and the texture of unit 0.
drawArrays(m, mode, first, count, vPosition, vTextureCoord, unit0) ==
  [mode |-> mode, first |-> first, count |-> count,
   vPosition |-> m.gpu[vPosition].data.px,
   vTextureCoord |-> m.gpu[vTextureCoord].data.px,
   unit0 |-> m.gpu[unit0].data]

\* entityGroup.renderSprites(renderer, instructions): the manager state it
\* leaves and the draw calls it issued.
renderSprites(m, instructions) ==
  IF Len(instructions) = 0 THEN [m |-> m, draws |-> <<>>]
  ELSE LET positionArray == VertexArray(instructions, "tileCoords")
           textureCoordArray == VertexArray(instructions, "textureCoords")
           m1 == getTextureObject(m, TexturePackId, Image("texturePack"))
           glTexturePack == m1.ret
           m2 == getOrCreateProgram(m1, "EntityGroup")
           m3 == getBuffer(m2, EntityGroupId \o "pos")
           posArrayBuffer == m3.ret
           m4 == getBuffer(m3, EntityGroupId \o "texCoord")
           texCoordArrayBuffer == m4.ret
           m5 == bufferData(m4, posArrayBuffer, positionArray)
           m6 == bufferData(m5, texCoordArrayBuffer, textureCoordArray)
       IN [m |-> m6,
           draws |-> <<drawArrays(m6, "TRIANGLES", 0, Len(instructions) * 6,
                                  posArrayBuffer, texCoordArrayBuffer,
                                  glTexturePack)>>]

NoBatch == [done |-> FALSE, draws |-> <<>>, touched |-> FALSE]

SpritesInit ==
  /\ sprites = <<>>
  /\ batch = NoBatch
  /\ returns = <<>>

\* One more instruction { textureCoords, tileCoords } for the next batch.
AddInstruction(tileCoords, textureCoords) ==
  /\ Len(sprites) < MaxSprites
  /\ sprites' = Append(sprites, [tileCoords |-> tileCoords,
                                 textureCoords |-> textureCoords])
  /\ batch' = NoBatch
  /\ UNCHANGED <<glVars, returns>>

\* entityGroup.renderSprites(renderer, sprites)
RenderSprites ==
  LET r == renderSprites(GLState, sprites)
  IN /\ gpu' = r.m.gpu
     /\ programs' = r.m.programs
     /\ buffers' = r.m.buffers
     /\ textures' = r.m.textures
     /\ glLast' = GLOp("renderSprites", "", r.m)
     /\ batch' = [done |-> TRUE, draws |-> r.draws,
                  touched |-> <<gpu, programs, buffers, textures>>
                                # <<gpu', programs', buffers', textures'>>]
     /\ UNCHANGED <<sprites, contextLost, isFirstPass, returns>>

SpritesNext ==
  \/ \E tileCoords \in TileRects, textureCoords \in TextureRects :
       AddInstruction(tileCoords, textureCoords)
  \/ RenderSprites

\* Bounds of the entity group.
MaxGroup == 2        \* at most this many entities are in the group

\* The instruction of a sprite drawn at tileCoords.
Instruction(tileCoords) ==
  [tileCoords |-> tileCoords, textureCoords |-> <<0, 0, 16, 16>>]

\* What getRenderingInstructions() can return: one instruction, or an array
\* of none, one or two (Entity's own returns []).
OneInstruction == {[isArray |-> FALSE, instructions |-> <<Instruction(t)>>] :
                     t \in TileRects}
ArrayOfInstructions ==
  {[isArray |-> TRUE, instructions |-> a] :
     a \in {<<>>} \cup {<<Instruction(t)>> : t \in TileRects}
          \cup {<<Instruction(t), Instruction(u)>> : t, u \in TileRects}}

\* The loop of render() over the entities: what renderingInstructions holds
\* after the entities from the i-th on. Array.prototype.push(list,
\* instructions) appends its two arguments to Array.prototype, not to list;
\* list.push(instructions) appends the one instruction.
RECURSIVE collectInstructions(_, _, _)
collectInstructions(list, of, i) ==
  IF i > Len(of) THEN list
  ELSE collectInstructions(
         IF of[i].isArray THEN list
         ELSE Append(list, of[i].instructions[1]),
         of, i + 1)

\* world.entities.push(entity), with what its getRenderingInstructions()
\* returns.
AddToGroup(returned) ==
  /\ Len(returns) < MaxGroup
  /\ returns' = Append(returns, returned)
  /\ sprites' = <<>>
  /\ batch' = NoBatch
  /\ UNCHANGED glVars

\* entityGroup.render(renderer): sprites is the list given to renderSprites.
EntityGroupRenderAll ==
  LET renderingInstructions == collectInstructions(<<>>, returns, 1)
      r == renderSprites(GLState, renderingInstructions)
  IN /\ sprites' = renderingInstructions
     /\ gpu' = r.m.gpu
     /\ programs' = r.m.programs
     /\ buffers' = r.m.buffers
     /\ textures' = r.m.textures
     /\ glLast' = GLOp("renderSprites", "", r.m)
     /\ batch' = [done |-> TRUE, draws |-> r.draws,
                  touched |-> <<gpu, programs, buffers, textures>>
                                # <<gpu', programs', buffers', textures'>>]
     /\ UNCHANGED <<contextLost, isFirstPass, returns>>

GroupNext ==
  \/ \E returned \in OneInstruction \cup ArrayOfInstructions :
       AddToGroup(returned)
  \/ EntityGroupRenderAll

(***************************************************************************)
(*                               THE GAME                                  *)
(***************************************************************************)

\* Bounds of the game model.
MaxGameTicks == 6    \* the ticker calls game.tick() at most this many times

\* The keys handleInputs looks at (at most one is held during a tick).
Keys == {"none", " ", "a", "d"}

\* new PlayerEntity(): position (2.5, 2), velocity (0, 0), not on the ground.
PlayerEntity ==
  [position |-> [x |-> 2 * Tile + Tile \div 2, y |-> 2 * Tile],
   velocity |-> [x |-> 0, y |-> 0], onGround |-> FALSE]

\* player.jump()
jump(e) ==
  IF e.onGround THEN [e EXCEPT !.velocity.y = @ + 70] ELSE e

\* player.moveLeftOrRight(unit)
moveLeftOrRight(e, unit) ==
  LET mvAmount == IF e.onGround THEN 5 ELSE 2
      maxVelo == IF e.onGround THEN 60 ELSE 10
      intendedMvAmount == unit * mvAmount
  IN IF Abs(e.velocity.x + intendedMvAmount) > maxVelo THEN e
     ELSE [e EXCEPT !.velocity.x = @ + intendedMvAmount]

\* game.handleInputs(), as far as the player goes (the viewport it also
\* moves is not modelled).
handleInputs(g, key) ==
  CASE key = " " -> [g EXCEPT !.player = jump(@)]
    [] key = "a" -> [g EXCEPT !.player = moveLeftOrRight(@, -1)]
    [] key = "d" -> [g EXCEPT !.player = moveLeftOrRight(@, 1)]
    [] OTHER     -> g

\* game.tick(): this.handleInputs(); //this.physicsEngine.tick()
tick(g, key) ==
  [handleInputs(g, key) EXCEPT !.ticks = @ + 1]

\* ticks counts the calls of game.tick(), physicsTicks the calls of
\* physicsEngine.tick(), drawn is the player as the last frame drew it.
GameInit ==
  theGame = [gameRunning |-> FALSE, ticks |-> 0, physicsTicks |-> 0,
          player |-> PlayerEntity, drawn |-> PlayerEntity]

\* game.start()
GameStart ==
  theGame' = [theGame EXCEPT !.gameRunning = TRUE]

\* game.stop(): the ticker is stopped too.
GameStop ==
  theGame' = [theGame EXCEPT !.gameRunning = FALSE]

\* The ticker of a running game calls its callback, game.tick().
GameTick(key) ==
  /\ theGame.gameRunning
  /\ theGame.ticks < MaxGameTicks
  /\ theGame' = tick(theGame, key)

\* game.renderLoop()
RenderLoop ==
  /\ theGame.gameRunning
  /\ theGame' = [theGame EXCEPT !.drawn = theGame.player]

GameNext ==
  \/ GameStart
  \/ GameStop
  \/ \E key \in Keys : GameTick(key)
  \/ RenderLoop

(***************************************************************************)
(*                           SPECIFICATIONS                                *)
(***************************************************************************)

Init ==
  /\ TickerInit /\ LoaderInit /\ GLInit /\ SceneInit
  /\ TilesetInit /\ PackerInit /\ PhysicsInit /\ TransformInit
  /\ SpritesInit /\ GameInit

SpecTicker ==
  Init /\ [][TickerNext
               /\ UNCHANGED <<loaderVars, glVars, sceneVars, libVars>>]_vars

SpecLoader ==
  Init /\ [][LoaderNext
               /\ UNCHANGED <<tickerVars, glVars, sceneVars, libVars>>]_vars

\* Direct calls of the resource manager's methods, and context loss.
SpecGL ==
  Init /\ [][GLNext
               /\ UNCHANGED <<tickerVars, loaderVars, sceneVars, libVars>>]_vars

\* The render loop, edits of the tile layer, and context loss.
SpecRender ==
  Init /\ [][SceneNext /\ UNCHANGED <<tickerVars, loaderVars, libVars>>]_vars

\* The variables of the four components above.
appVars == <<tickerVars, loaderVars, glVars, sceneVars>>

\* Tiles are registered and the tileset is generated from them.
SpecTileset ==
  Init /\ [][TilesetNext
              /\ UNCHANGED <<appVars, packerVars, physicsVars, transformVars,
                              spriteVars, gameVars>>]_vars

\* Rectangles are collected, then packed by potpack or by the texture packer.
SpecPacker ==
  Init /\ [][PackerNext
              /\ UNCHANGED <<appVars, tilesetVars, physicsVars, transformVars,
                              spriteVars, gameVars>>]_vars

\* Entities are dropped into the world and the physics engine ticks.
SpecPhysics ==
  Init /\ [][PhysicsNext
              /\ UNCHANGED <<appVars, tilesetVars, packerVars, transformVars,
                              spriteVars, gameVars>>]_vars

\* The ticker at its nominal rate; a due timer fires and the clock goes on.
SpecTickerNominal ==
  /\ Init
  /\ [][NominalNext /\ UNCHANGED <<loaderVars, glVars, sceneVars, libVars>>]_vars
  /\ WF_tickerVars(RunTicks)
  /\ WF_tickerVars(WaitForTimer)

\* Two boxes are chosen and a point of the first is mapped there and back.
SpecTransform ==
  Init /\ [][TransformNext
              /\ UNCHANGED <<appVars, tilesetVars, packerVars, physicsVars,
                              spriteVars, gameVars>>]_vars

\* Rendering instructions are collected and renderSprites draws them.
SpecSprites ==
  Init /\ [][SpritesNext
              /\ UNCHANGED <<tickerVars, loaderVars, sceneVars, tilesetVars,
                              packerVars, physicsVars, transformVars,
                              gameVars>>]_vars

\* Entities join the group and the group is rendered.
SpecGroup ==
  Init /\ [][GroupNext
              /\ UNCHANGED <<tickerVars, loaderVars, sceneVars, tilesetVars,
                              packerVars, physicsVars, transformVars,
                              gameVars>>]_vars

\* The game is started and stopped, its ticker calls tick() and its render
\* loop draws frames.
SpecGame ==
  Init /\ [][GameNext
              /\ UNCHANGED <<appVars, tilesetVars, packerVars, physicsVars,
                              transformVars, spriteVars>>]_vars

\* The same, with the ticker calling tick() again and again.
SpecPhysicsLive == SpecPhysics /\ WF_physicsVars(PhysicsTick)

\* Entities are placed in the cave and the physics engine ticks.
SpecCave ==
  Init /\ [][CaveNext
              /\ UNCHANGED <<appVars, tilesetVars, packerVars, transformVars,
                              spriteVars, gameVars>>]_vars

SpecRoom ==
  Init /\ [][RoomNext
              /\ UNCHANGED <<appVars, tilesetVars, packerVars, transformVars,
                              spriteVars, gameVars>>]_vars

(***************************************************************************)
(*                          CLAIMS: TICKER                                 *)
(***************************************************************************)

RanTicks == lastRun.op = "runTicks"

\* C3: a scheduler invocation that finds expectedTime < currentTime -
\* 5*tickLength does a hard reset (startTime = now, tickIndex = 1) and runs
\* no tick callback; no invocation runs more than maxTicksBeforeLagBack
\* callbacks; and with a callback that takes longer than 5*tickLength the
\* tick count keeps being reset: it never passes 3.
C3_HardReset ==
  /\ (RanTicks /\ lastRun.branch = "hardReset")
       => /\ lastRun.calls = 0
          /\ lastRun.resets = 1
          /\ startTime = now
          /\ tickIndex = 1
  /\ lastRun.calls <= maxTicksBeforeLagBack
  /\ (callbackTime > 5 * TickLength) => tickIndex <= 3

\* A slow callback has run and the following invocation did a hard reset.
C3_Witness ==
  /\ RanTicks /\ lastRun.branch = "hardReset"
  /\ callbackTime > 5 * TickLength
  /\ tickTimeHistory # <<>>

\* C4: every scheduler invocation of a running ticker, whichever branch it
\* takes, sets exactly one timer, with delay
\* max(0, startTime + tickLength*tickIndex - now).
C4_OneTimerPerInvocation ==
  (RanTicks /\ lastRun.branch # "stopped")
    => lastRun.set = <<Max(0, startTime + TickLength * tickIndex - now)>>

\* C5: the ticker is stopped until start(), running after start(), stopped
\* after stop(); only start() and stop() change that; and a timer that fires
\* while the ticker is stopped runs no callback, sets no timer and changes
\* nothing of the ticker.
C5_StateMachine ==
  /\ [](/\ lastRun.op = "init" => ~isRunning
        /\ lastRun.op = "start" => isRunning
        /\ lastRun.op = "stop" => ~isRunning
        /\ (RanTicks /\ ~isRunning)
             => (lastRun.branch = "stopped" /\ lastRun.calls = 0
                 /\ lastRun.set = <<>>))
  /\ [][/\ isRunning' # isRunning => lastRun'.op \in {"start", "stop"}
        /\ (~isRunning /\ lastRun'.op = "runTicks")
             => /\ UNCHANGED <<isRunning, startTime, tickIndex,
                               tickTimeHistory, now>>
                /\ BagCardinality(timers') = BagCardinality(timers) - 1
       ]_vars

\* A timer fired after stop() (the ticker had been started and had ticked).
C5_Witness ==
  /\ RanTicks /\ lastRun.branch = "stopped"
  /\ ~isRunning /\ starts > 0 /\ tickTimeHistory # <<>>

C25_BranchSelection ==
  [][LET currentTime == now
         expectedTime == startTime + TickLength * tickIndex
     IN (isRunning /\ lastRun'.op = "runTicks")
          => /\ expectedTime > currentTime + TickLength
                  => (lastRun'.calls = 0 /\ tickIndex' = tickIndex)
             /\ (/\ expectedTime <= currentTime + TickLength
                 /\ expectedTime >= currentTime - TickLength)
                  => (lastRun'.calls = 1 /\ tickIndex' = tickIndex + 1)
    ]_vars

\* An invocation came early, after ticks that were on time.
C25_Witness ==
  /\ RanTicks /\ lastRun.branch = "early" /\ lastRun.calls = 0
  /\ tickTimeHistory # <<>>
  /\ startTime + TickLength * tickIndex > now + TickLength

\* C26: a scheduler invocation that finds the schedule mildly behind
\* (expectedTime < currentTime - tickLength, but not below currentTime -
\* 5*tickLength) runs the tick callback again and again until the schedule
\* is caught up (no longer behind), and stops earlier only after
\* maxTicksBeforeLagBack callbacks, after a hard reset inside the loop or
\* when the schedule has fallen behind the hard-reset threshold.
C26_CatchesUp ==
  (RanTicks /\ lastRun.branch = "catchUp")
    => \/ ~IsBehind(startTime + TickLength * tickIndex, now)
       \/ lastRun.calls = maxTicksBeforeLagBack
       \/ lastRun.resets > 0
       \/ IsFarBehind(startTime + TickLength * tickIndex, now)

\* C38: however start() and stop() are called between the timers' firings,
\* at most one chain of runTicks invocations is alive: a running ticker
\* has at most one timer pending.
C38_OneChainAlive ==
  isRunning => BagCardinality(timers) <= 1

(***************************************************************************)
(*                          CLAIMS: LOADER                                 *)
(***************************************************************************)

\* C1: whenever a builder's atlas generation runs, every load handle
\* registered on its sub-tracker has signalled completion, whatever the
\* order in which the loads complete.
C1_GenerationAfterAllLoads ==
  \A b \in Builders :
    generation[b].count > 0 => generation[b].pending = {}

\* Both builders have generated, each from several registered images.
C1_Witness ==
  \A b \in Builders :
    generation[b].count > 0 /\ Len(assetProgresses[b]) >= 2

\* C35: when a builder's generation runs, its image map holds every image
\* whose load has completed, the one whose completion set the generation
\* off included: no loaded image is missing from the atlas.
C35_GeneratesFromAllLoaded ==
  \A b \in Builders :
    generation[b].count > 0
      => /\ generation[b].loaded \subseteq generation[b].images
         /\ generation[b].loaded \subseteq atlas[b]

\* C36: a tracker's onfinished runs at most once, whatever handles are
\* registered and completed and in whatever order: no sub-tracker sets its
\* builder's generation off twice, and the global tracker's runs once.
C36_FinishesOnce ==
  /\ \A b \in Builders : generation[b].count <= 1
  /\ game.runs <= 1

\* C37: when the global tracker's onfinished runs, every builder has
\* generated its atlas: texturePack.isReady and tileset.isReady are true.
C37_ReadyWhenGameStarts ==
  game.runs > 0 => \A b \in Builders : game.ready[b]

(***************************************************************************)
(*                    CLAIMS: THE RESOURCE MANAGER                         *)
(***************************************************************************)

\* The last step was a getBuffer / getTexture call for name n: it answered
\* from the cache, creating nothing, if n was cached; otherwise it created
\* exactly one object of that kind, cached it under n and returned it.
GetOrCreate(op, kind, cache, cacheAfter) ==
  glLast'.op = op =>
    LET n == glLast'.name
        object == glLast'.ret
    IN IF n \in DOMAIN cache
       THEN /\ object = cache[n]
            /\ glLast'.created = {}
            /\ cacheAfter = cache
            /\ gpu' = gpu
       ELSE /\ glLast'.created = {object}
            /\ object \notin DOMAIN gpu
            /\ DOMAIN gpu' = DOMAIN gpu \cup {object}
            /\ gpu'[object].kind = kind
            /\ cacheAfter = Put(cache, n, object)

\* A cached object stays cached, unless the step is a delete or a context
\* loss.
StaysCached(deleteOp, cache, cacheAfter) ==
  \A n \in DOMAIN cache :
    \/ n \in DOMAIN cacheAfter /\ cacheAfter[n] = cache[n]
    \/ glLast'.op \in {deleteOp, "contextLost"}

\* C6: getBuffer(id) and getTexture(id) are get-or-create: the first request
\* for an id creates exactly one GPU object and caches it; every later
\* request, with no delete or context loss in between, returns that same
\* object and creates nothing.
C6_GetOrCreate ==
  [][/\ GetOrCreate("getBuffer", "buffer", buffers, buffers')
     /\ GetOrCreate("getTexture", "texture", textures, textures')
     /\ StaysCached("deleteBuffer", buffers, buffers')
     /\ StaysCached("deleteTexture", textures, textures')
    ]_vars

\* A getTexture call was answered from the cache while a buffer was cached too.
C6_Witness ==
  /\ glLast.op = "getTexture"
  /\ glLast.created = {}
  /\ glLast.name \in DOMAIN textures
  /\ glLast.ret = textures[glLast.name]
  /\ buffers # <<>>

\* The GL program objects that are allocated.
LivePrograms == {i \in DOMAIN gpu : gpu[i].kind = "program"}

\* C7: after any sequence of createProgram / deleteProgram calls, every GL
\* program object created and not deleted is referenced by exactly one cache
\* entry, every cache entry references such an object, and a successful
\* createProgram leaves the new program under its name.
C7_NoLeakedPrograms ==
  /\ \A p \in LivePrograms :
       Cardinality({n \in DOMAIN programs : programs[n].program = p}) = 1
  /\ \A n \in DOMAIN programs : programs[n].program \in LivePrograms
  /\ (glLast.op = "createProgram" /\ glLast.error = NoError)
       => /\ glLast.name \in DOMAIN programs
          /\ programs[glLast.name].program = glLast.ret
          /\ glLast.ret \in glLast.created

\* A createProgram call replaced the program of its name.
C7_Witness ==
  /\ glLast.op = "createProgram"
  /\ glLast.error = NoError
  /\ glLast.deleted # {}
  /\ LivePrograms # {}

\* C8: the context-lost handler empties the three caches in one step and
\* calls no gl.deleteX(); afterwards no name has a program, a buffer or a
\* texture, and an entry only comes back through a createProgram, getBuffer
\* or getTexture call for its name.
C8_ContextLostClearsCaches ==
  /\ [](glLast.op = "contextLost"
          => /\ programs = <<>> /\ buffers = <<>> /\ textures = <<>>
             /\ glLast.deleted = {} /\ glLast.created = {})
  /\ [][/\ \A n \in DOMAIN programs' \ DOMAIN programs :
            glLast'.op = "createProgram" /\ glLast'.name = n
        /\ \A n \in DOMAIN buffers' \ DOMAIN buffers :
            glLast'.op = "getBuffer" /\ glLast'.name = n
        /\ \A n \in DOMAIN textures' \ DOMAIN textures :
            glLast'.op = "getTexture" /\ glLast'.name = n
       ]_vars

\* The context was lost while programs, buffers or textures were cached.
C8_Witness ==
  /\ glLast.op = "contextLost"
  /\ glLast.cached >= 3
  /\ contextLost

\* C9: when a compile or a link fails inside createProgram, the error carries
\* the info log and no GL object created during the call remains allocated.
C9_NoLeakOnFailure ==
  (glLast.op = "createProgram" /\ glLast.error # NoError)
    => /\ glLast.error \in {InfoLog("vertex shader"),
                            InfoLog("fragment shader"), InfoLog("program")}
       /\ glLast.created \cap DOMAIN gpu = {}

(***************************************************************************)
(*                         CLAIMS: RENDERING                               *)
(***************************************************************************)

\* The draw calls of the last frame that came from the given renderable.
DrawsOf(renderable) ==
  {i \in DOMAIN frame.draws : frame.draws[i].renderable = renderable}

\* C2: at every tile-layer draw call the texture bound as the world texture
\* holds the encoding of the tile grid as it is, and needsUpdate is false
\* when the render call returns after drawing, however setTileAt, markUpdate
\* and render calls interleave.
C2_CleanAtDraw ==
  (frame.op = "render" /\ DrawsOf("TileLayer") # {})
    => /\ \A i \in DrawsOf("TileLayer") :
            frame.draws[i].unit1 =
              renderWorldToTexture(tileData, world.width, world.height)
       /\ ~needsUpdate

\* A frame after the first one drew a grid that is not all air.
C2_Witness ==
  /\ frame.op = "render"
  /\ DrawsOf("TileLayer") # {}
  /\ glLast.op = "render" /\ glLast.created = {}
  /\ \E y \in DOMAIN tileData : \E x \in DOMAIN tileData[y] :
       tileData[y][x] = tileCount

C33_EncodingAgreesWithAtlas ==
  frame.op = "render"
    => \A i \in DrawsOf("TileLayer") :
         \A y \in DOMAIN tileData : \A x \in DOMAIN tileData[y] :
           LET c == tileData[y][x]
               texel == frame.draws[i].unit1.px
               k == 4 * (y * world.width + x)
           IN c \in 1 .. tileCount
                => /\ texel[k + 1] = c % widthInTiles
                   /\ texel[k + 2] = c \div widthInTiles
                   /\ texel[k + 4] = 255
                   /\ <<texel[k + 1] * tileSize, texel[k + 2] * tileSize>>
                        = DrawnAt(c)
                   /\ DrawnAt(c) = getTileCorner(c)

\* A frame drew a grid with two different tiles, in the second row of a
\* world two high.
C33_Witness ==
  /\ frame.op = "render" /\ DrawsOf("TileLayer") # {}
  /\ world.height = 2
  /\ tileData[1][0] = tileCount
  /\ tileData[0][0] = 1

\* C12: after any sequence of setTileAt calls, given tile names or numeric
\* codes, every cell of the grid holds a code c with 0 <= c < tileCount.
C12_GridCodesInRange ==
  \A y \in DOMAIN tileData : \A x \in DOMAIN tileData[y] :
    0 <= tileData[y][x] /\ tileData[y][x] < tileCount

\* C24: after any call of setTileAt, whatever its arguments, and after any
\* call of markUpdate, the tile layer is dirty (needsUpdate is true).
C24_CallsMarkDirty ==
  frame.op \in {"setTileAt", "markUpdate"} => needsUpdate = TRUE

(***************************************************************************)
(*                          CLAIMS: THE TILESET                            *)
(***************************************************************************)

\* C11: for every tile name that has a code in the generated tileset,
\* toTile(toCode(name)) is the name, and toCode("air") is 0, in whatever
\* order the tiles were registered.
C11_CodeRoundTrip ==
  tileset.isReady
    => /\ \A n \in DOMAIN tileset.tileCodes :
            ToTile(tileset, Number(ToCode(tileset, String(n)))) = n
       /\ ToCode(tileset, String("air")) = 0

(***************************************************************************)
(*                     CLAIMS: THE RECTANGLE PACKER                        *)
(***************************************************************************)

\* potpack has returned for the rectangles given.
Returned == packed.w # Undefined

Placed(b) == b.x # Undefined /\ b.y # Undefined

\* The width of the strip two intervals share, 0 if they are apart.
Shared(a, la, b, lb) == Max(0, Min(a + la, b + lb) - Max(a, b))

OverlapArea(a, b) == Shared(a.x, a.w, b.x, b.w) * Shared(a.y, a.h, b.y, b.h)

\* C13: whatever rectangles potpack is given, it places every one of them
\* and any two distinct placed rectangles overlap in zero area.
C13_NoOverlap ==
  Returned
    => /\ Len(packed.boxes) = Len(rects)
       /\ \A i \in DOMAIN packed.boxes : Placed(packed.boxes[i])
       /\ \A i, j \in DOMAIN packed.boxes :
            i # j => OverlapArea(packed.boxes[i], packed.boxes[j]) = 0

\* Three rectangles were packed, one to the right of another and one below.
C13_Witness ==
  /\ Returned
  /\ Len(packed.boxes) = 3
  /\ \E i, j \in DOMAIN packed.boxes :
       /\ packed.boxes[i].x > 0 /\ packed.boxes[i].y > 0
       /\ packed.boxes[j].x > 0 /\ packed.boxes[j].y = 0

\* C14: the fill potpack returns is greater than 0 and at most 1 when at
\* least one rectangle is given; for no rectangles it returns w = 0, h = 0
\* and fill = 0.
C14_FillInRange ==
  Returned
    => IF rects = <<>>
       THEN /\ packed.w = 0 /\ packed.h = 0
            /\ packed.fill.num = 0 /\ packed.fill.den # 0
       ELSE /\ packed.fill.den > 0
            /\ 0 < packed.fill.num
            /\ packed.fill.num <= packed.fill.den

\* Three rectangles were packed with room to spare.
C14_Witness ==
  /\ Returned
  /\ Len(rects) = 3
  /\ packed.fill.num < packed.fill.den

\* C15: the container potpack returns is at least as wide and as high as
\* every rectangle given, and every placed rectangle lies inside it.
C15_ContainerHoldsAll ==
  Returned
    => /\ \A i \in DOMAIN rects :
            packed.w >= rects[i].w /\ packed.h >= rects[i].h
       /\ \A i \in DOMAIN packed.boxes :
            LET b == packed.boxes[i]
            IN /\ 0 <= b.x /\ b.x + b.w <= packed.w
               /\ 0 <= b.y /\ b.y + b.h <= packed.h

\* Three rectangles were packed and one of them touches the right edge of
\* the container without starting at the left edge.
C15_Witness ==
  /\ Returned
  /\ Len(packed.boxes) = 3
  /\ \E i \in DOMAIN packed.boxes :
       packed.boxes[i].x > 0
         /\ packed.boxes[i].x + packed.boxes[i].w = packed.w

\* The images given are one of 16x16, one of 8x8 and one of 4x4.
ThreeSquares ==
  /\ Len(rects) = 3
  /\ \A side \in {16, 8, 4} :
       \E i \in DOMAIN rects : rects[i].w = side /\ rects[i].h = side

IsPowerOfTwo(n) == n > 0 /\ 2 ^ CeilLog2(n) = n

\* C18: from three images of 16x16, 8x8 and 4x4 the texture packer makes
\* an atlas whose width and height are the same power of two, and the fill
\* that was computed is (256 + 64 + 16) / (atlas width * atlas height).
C18_SquareAtlas ==
  (texturePack.isReady /\ ThreeSquares)
    => /\ IsPowerOfTwo(texturePack.width)
       /\ texturePack.width = texturePack.height
       /\ texturePack.packing.fill.num * texturePack.width * texturePack.height
            = (256 + 64 + 16) * texturePack.packing.fill.den

\* n is the smallest power of two that is at least m.
SmallestPowerOfTwoFrom(n, m) == IsPowerOfTwo(n) /\ n >= m /\ n < 2 * m

\* C31: for a packing whose container is at least 1 wide and 1 high, the
\* width of the atlas is the smallest power of two >= the container's
\* width and its height the smallest power of two >= the container's
\* height, each on its own, and every placed rectangle is inside the atlas.
C31_AtlasSizing ==
  (texturePack.isReady /\ texturePack.packing.w >= 1
                       /\ texturePack.packing.h >= 1)
    => /\ SmallestPowerOfTwoFrom(texturePack.width, texturePack.packing.w)
       /\ SmallestPowerOfTwoFrom(texturePack.height, texturePack.packing.h)
       /\ \A i \in DOMAIN texturePack.textureLocations :
            LET rect == texturePack.textureLocations[i]
            IN /\ Placed(rect)
               /\ 0 <= rect.x /\ rect.x + rect.w <= texturePack.width
               /\ 0 <= rect.y /\ rect.y + rect.h <= texturePack.height

\* An atlas of sides that differ, one rounded up and one a power of two as
\* the container had it.
C31_Witness ==
  /\ texturePack.isReady /\ Len(rects) >= 2
  /\ texturePack.width # texturePack.height
  /\ \/ /\ texturePack.width > texturePack.packing.w
        /\ texturePack.height = texturePack.packing.h
     \/ /\ texturePack.width = texturePack.packing.w
        /\ texturePack.height > texturePack.packing.h

\* Before every round of potpack's loop over these boxes, and after the
\* last, the spaces of p hold one that is unbounded and as wide as full.
RECURSIVE KeepsOpenSpace(_, _, _)
KeepsOpenSpace(p, boxes, full) ==
  /\ \E i \in DOMAIN p.spaces :
       p.spaces[i].h = Infinity /\ p.spaces[i].w = full
  /\ \/ boxes = <<>>
     \/ KeepsOpenSpace(PlaceBox(p, Head(boxes)), Tail(boxes), full)

\* C40: potpack places every rectangle it is given: after every round of
\* its loop the list of free spaces holds a space of unbounded height as
\* wide as the start width, every rectangle comes back once with an x and
\* a y, and x + w <= start width for every rectangle.
C40_EveryRectanglePlaced ==
  Returned
    => /\ KeepsOpenSpace(EmptyPacking(rects), SortByHeight(rects),
                         startWidth(rects))
       /\ Len(packed.boxes) = Len(rects)
       /\ \A b \in 1 .. Len(rects) :
            Cardinality({i \in DOMAIN packed.boxes :
                           packed.boxes[i].w = rects[b].w
                             /\ packed.boxes[i].h = rects[b].h})
              = Cardinality({i \in DOMAIN rects :
                               rects[i].w = rects[b].w
                                 /\ rects[i].h = rects[b].h})
       /\ LET full == startWidth(rects)
          IN \A i \in DOMAIN packed.boxes :
               /\ Placed(packed.boxes[i])
               /\ packed.boxes[i].x + packed.boxes[i].w <= full

\* Three rectangles were packed: one as wide as the start width, which took
\* a whole row of the unbounded space, and one that went into a space
\* split off to the right of another.
C40_Witness ==
  /\ Returned
  /\ Len(packed.boxes) = 3
  /\ \E i, j \in DOMAIN packed.boxes :
       /\ packed.boxes[i].w = startWidth(rects)
       /\ packed.boxes[j].x > 0

\* C32: a tileset generated from imageCount images has a grid of
\* widthInTiles * heightInTiles = 2^e cells, 2^e the smallest power of two
\* >= imageCount + 1, with heightInTiles = 2^floor(e/2) and widthInTiles =
\* 2^(e - floor(e/2)); and every code i it assigns is drawn at the cell
\* (i mod widthInTiles, floor(i / widthInTiles)), inside the grid.
C32_GridSizing ==
  (tileset.isReady /\ tileset = generateTileset(tileImages))
    => LET imageCount == Len(tileImages)
           cells == tileset.widthInTiles * tileset.heightInTiles
           e == CeilLog2(cells)
       IN /\ SmallestPowerOfTwoFrom(cells, imageCount + 1)
          /\ tileset.heightInTiles = 2 ^ (e \div 2)
          /\ tileset.widthInTiles = 2 ^ (e - (e \div 2))
          /\ \A i \in 1 .. tileset.tileCount :
               /\ i % tileset.widthInTiles < tileset.widthInTiles
               /\ i \div tileset.widthInTiles < tileset.heightInTiles

(***************************************************************************)
(*                      CLAIMS: THE PHYSICS ENGINE                         *)
(***************************************************************************)

\* The top of the one solid tile: its row + 1.
TileTop == (2 + 1) * Tile

\* The last tick was the first one of entity i, which was moving down,
\* stood directly above the solid tile, at or above its top, and was to
\* reach the top within the tick.
DroppedOntoTile(i) ==
  /\ i \in DOMAIN before
  /\ before[i].y = before[i].from.y /\ before[i].vy = before[i].from.vy
  /\ ~before[i].onGround
  /\ before[i].vy < 0
  /\ before[i].y >= TileTop
  /\ before[i].y + before[i].vy + gravityAcceleration <= TileTop

\* C16: an entity moving down that is dropped onto the single solid tile
\* directly below it is on the ground after that one tick, with its
\* position.y at the top of the tile, whether it started less or more than
\* a tile above the top.
C16_LandsOnTile ==
  \A i \in DOMAIN bodies :
    DroppedOntoTile(i)
      => bodies[i].onGround /\ bodies[i].y = TileTop

\* Entity i is the one of the scenario: a 1x1 hitbox, dropped at (1.5, 4)
\* with velocity (0, 0).
Scenario(i) ==
  /\ i \in DOMAIN bodies
  /\ bodies[i].from = [y |-> 4 * Tile, vy |-> 0]
  /\ bodies[i].hitboxWidth = Tile /\ bodies[i].hitboxHeight = Tile

Settled(i) ==
  /\ i \in DOMAIN bodies
  /\ bodies[i].y = TileTop /\ bodies[i].onGround

\* C17: in the 3x3 world with the solid tile at (1, 2), the entity with a
\* 1x1 hitbox dropped at (1.5, 4) with velocity (0, 0) is, from some tick
\* on, at position.y = 3 and on the ground after every tick.
C17_SettlesOnTile == Scenario(1) ~> [] Settled(1)

\* The entity of the scenario has settled and has been ticked since.
C17_Witness ==
  /\ Scenario(1) /\ Settled(1)
  /\ before # <<>> /\ before[1].y = TileTop /\ before[1].onGround

\* Entity i was reached by the last tick: it has a velocity, and so has
\* every entity before it in the list.
Ticked(i) ==
  /\ i \in DOMAIN before
  /\ \A j \in 1 .. i : before[j].hasVelocity

\* C28: a tick advances every entity that has a velocity, wherever it is in
\* the list of entities.
C28_EveryPhysicsEntityTicks ==
  \A i \in DOMAIN before :
    before[i].hasVelocity => bodies[i] = tickEntity(before[i])

\* The velocity entity i moved with in the last tick (gravity added), and
\* the hitbox it was to reach, before any correction.
EffectiveVelocity(i) ==
  [x |-> before[i].vx, y |-> before[i].vy + gravityAcceleration]

NextHitbox(i) ==
  shift(getHitbox(before[i]), EffectiveVelocity(i).x, EffectiveVelocity(i).y)

UnitBox(x, y) == BoundingBox(x * Tile, y * Tile, Tile, Tile)

\* C29: for each solid tile whose unit box intersects the next hitbox: if
\* the intersection is narrower than high, the velocity along x becomes 0
\* and the next position moves back along x by the width, against the sign
\* of the velocity, and nothing else changes (onGround stays); otherwise,
\* a tie included, the velocity along y becomes 0, the next position moves
\* back along y by the height, the velocity along x is multiplied by 0.74
\* (to the hundredth) and onGround becomes true.
C29_TieBreak ==
  \A i \in DOMAIN before :
    Ticked(i) =>
      \A k \in DOMAIN bodies[i].hits :
        LET hit == bodies[i].hits[k]
            width == hit.intersection.width
            height == hit.intersection.height
            v == EffectiveVelocity(i)
        IN /\ physicalTiles[hit.y][hit.x] # 0
           /\ hit.intersection = intersectWith(NextHitbox(i), UnitBox(hit.x, hit.y))
           /\ IF width < height
              THEN hit.to = [hit.from EXCEPT !.vx = 0,
                                             !.x = @ - width * Sign(v.x)]
              ELSE /\ hit.to.vy = 0
                   /\ hit.to.y = hit.from.y - height * Sign(v.y)
                   /\ hit.to.x = hit.from.x
                   /\ hit.to.onGround
                   /\ Sign(hit.to.vx) \in {0, Sign(hit.from.vx)}
                   /\ 100 * Abs(hit.to.vx) <= 74 * Abs(hit.from.vx)
                   /\ 74 * Abs(hit.from.vx) < 100 * (Abs(hit.to.vx) + 1)

\* One tick resolved a collision along y (wider than high; slowed from 0.5
\* to 0.37), then a tie, then one along x.
C29_Witness ==
  /\ Ticked(1)
  /\ Len(bodies[1].hits) = 3
  /\ LET hits == bodies[1].hits
     IN /\ hits[1].intersection.width > hits[1].intersection.height
        /\ hits[1].from.vx = 50 /\ hits[1].to.vx = 37
        /\ hits[2].intersection.width = hits[2].intersection.height
        /\ hits[2].intersection.width > 0
        /\ hits[3].intersection.width < hits[3].intersection.height
        /\ hits[3].intersection.width > 0
        /\ hits[3].to.vx = 0 /\ hits[3].from.vx # 0

\* The sum of the corrections of the hits from the k-th on: along x by the
\* width of the intersection, or else along y by its height, against the
\* sign of the velocity v.
RECURSIVE Corrections(_, _, _)
Corrections(hits, k, v) ==
  IF k > Len(hits) THEN [x |-> 0, y |-> 0]
  ELSE LET box == hits[k].intersection
           rest == Corrections(hits, k + 1, v)
       IN IF box.width < box.height
          THEN [rest EXCEPT !.x = @ - box.width * Sign(v.x)]
          ELSE [rest EXCEPT !.y = @ - box.height * Sign(v.y)]

\* C30: within one tick, every tile of the swept range, clamped to the
\* grid, is read, column by column and row by row within a column, with no
\* early exit and none outside the grid; every solid one is tested against
\* the same next hitbox, the one before any correction; and the position
\* after the tick is position + effectiveVelocity + the sum of the
\* corrections of all tiles hit.
C30_CorrectionsAddUp ==
  \A i \in DOMAIN before :
    Ticked(i) =>
      LET v == EffectiveVelocity(i)
          nextHitbox == NextHitbox(i)
          swept == union(getHitbox(before[i]), nextHitbox)
          xlow == Max(Floor(swept.x1), 0)
          xend == Min(PhysicalTilesWidth, Ceil(X2(swept)) + 1)
          ylow == Max(Floor(swept.y1), 0)
          yend == Min(PhysicalTilesHeight, Ceil(Y2(swept)) + 1)
          rows == Max(yend - ylow, 0)
          reads == bodies[i].reads
          hits == bodies[i].hits
          IsHit(t) == /\ physicalTiles[t[2]][t[1]] # 0
                      /\ intersectWith(nextHitbox, UnitBox(t[1], t[2])) # NoBox
          sum == Corrections(hits, 1, v)
      IN /\ Len(reads) = Max(xend - xlow, 0) * rows
         /\ \A k \in DOMAIN reads :
              /\ reads[k] = <<xlow + ((k - 1) \div rows), ylow + ((k - 1) % rows)>>
              /\ reads[k][1] \in 0 .. PhysicalTilesWidth - 1
              /\ reads[k][2] \in 0 .. PhysicalTilesHeight - 1
         /\ [k \in DOMAIN hits |-> <<hits[k].x, hits[k].y>>]
              = SelectSeq(reads, IsHit)
         /\ \A k \in DOMAIN hits :
              hits[k].intersection
                = intersectWith(nextHitbox, UnitBox(hits[k].x, hits[k].y))
         /\ bodies[i].x = before[i].x + v.x + sum.x
         /\ bodies[i].y = before[i].y + v.y + sum.y

\* An entity came down over the seam of two floor tiles, 0.1 into both: it
\* was moved up twice, to 0.1 above the floor.
C30_Witness ==
  /\ Ticked(1)
  /\ Len(bodies[1].hits) = 2
  /\ \A k \in 1 .. 2 : bodies[1].hits[k].intersection.height = 10
  /\ before[1].y + EffectiveVelocity(1).y = Tile - 10
  /\ bodies[1].y = Tile + 10
  /\ Len(bodies[1].reads) > 2

\* C22: texturePack.getLocationOf with a sprite name that no image has
\* does not throw and returns null.
C22_UnknownSpriteGivesNull ==
  (located.key # 0 /\ located.key \notin DOMAIN texturePack.textureLocations)
    => located.result = ReturnsNull

\* Hit k of entity i's last tick was a downward collision: the entity was
\* moving down and the collision was resolved along Y.
StoppedFromAbove(i, k) ==
  LET hit == bodies[i].hits[k]
  IN /\ EffectiveVelocity(i).y < 0
     /\ ~ResolvesAlongX(hit.intersection)

\* C39: after a tick, an entity is on the ground only if a downward
\* collision stopped it in that tick; a tick in which it only hit a tile
\* above it while moving up, or hit nothing, leaves it off the ground.
C39_OnGroundOnlyWhenLanded ==
  \A i \in DOMAIN bodies :
    (Ticked(i) /\ bodies[i].onGround) =>
      \E k \in DOMAIN bodies[i].hits : StoppedFromAbove(i, k)

(***************************************************************************)
(*              CLAIMS: THE TRANSFORMS BETWEEN BOUNDING BOXES              *)
(***************************************************************************)

\* C20: for two boxes of positive width and height and either choice of
\* flipX and flipY, a point of the first box mapped by
\* getReducedTransform(box1, box2, flipX, flipY) and then by
\* getReducedTransform(box2, box1, flipX, flipY) is the point itself.
C20_ThereAndBack ==
  (mapped.done /\ box1.width > 0 /\ box1.height > 0
               /\ box2.width > 0 /\ box2.height > 0)
    => mapped.back = mapped.point

\* A point inside a box was mapped, flipped along x only, into a box of
\* another place and shape, to another point, and back.
C20_Witness ==
  /\ mapped.done /\ mapped.flipX /\ ~mapped.flipY
  /\ box1.x1 # box2.x1 /\ box1.width # box2.width
  /\ box1.height # box2.height
  /\ mapped.point.x.d = 2
  /\ mapped.there # mapped.point
  /\ mapped.back = mapped.point

\* The points with whole coordinates around the boxes, and those in a box,
\* its boundary included.
GridPoints == {p \in [x : -2 .. 6, y : -2 .. 6] : TRUE}

PointsIn(b) ==
  {p \in GridPoints : /\ b.x1 <= p.x /\ p.x <= X2(b)
                      /\ b.y1 <= p.y /\ p.y <= Y2(b)}

\* C21: intersectWith gives null exactly for two boxes with no point in
\* common; otherwise it gives the box of the points they have in common,
\* which has zero area when they share only an edge or a corner; and the
\* union of a box with itself is an equal box.
C21_IntersectionAndUnion ==
  met.done
    => LET common == PointsIn(box1) \cap PointsIn(box2)
       IN /\ met.intersection = NoBox <=> common = {}
          /\ met.intersection # NoBox
               => /\ met.intersection.width >= 0
                  /\ met.intersection.height >= 0
                  /\ PointsIn(met.intersection) = common
          /\ met.union = box1

\* Two boxes that share part of an edge and nothing else were intersected.
C21_Witness ==
  /\ met.done
  /\ met.intersection # NoBox
  /\ met.intersection.width = 0 /\ met.intersection.height > 0

(***************************************************************************)
(*                       CLAIMS: THE SPRITE BATCH                          *)
(***************************************************************************)

\* The points (pairs of coordinates) of vertices a to b of a vertex array.
Vertices(array, a, b) == {<<array[2 * v - 1], array[2 * v]>> : v \in a .. b}

\* The six vertices from vertex v on are two triangles over the rectangle
\* c that share (x1, y1) and (x2, y2): one has (x1, y2), the other (x2, y1).
TwoTriangles(array, v, c) ==
  /\ Vertices(array, v, v + 2) = {<<c[1], c[2]>>, <<c[3], c[4]>>, <<c[1], c[4]>>}
  /\ Vertices(array, v + 3, v + 5) = {<<c[1], c[2]>>, <<c[3], c[4]>>, <<c[3], c[2]>>}

\* C23: renderSprites with no instructions issues no draw call and changes
\* nothing in the GL objects or the caches; with N >= 1 instructions it
\* issues one draw call, of triangles, with 6 * N vertices from 0 on, two
\* triangles per rectangle that share the vertices (x1, y1) and (x2, y2).
C23_OneDrawPerBatch ==
  batch.done
    => IF sprites = <<>>
       THEN batch.draws = <<>> /\ ~batch.touched
       ELSE /\ Len(batch.draws) = 1
            /\ LET draw == batch.draws[1]
               IN /\ draw.mode = "TRIANGLES" /\ draw.first = 0
                  /\ draw.count = 6 * Len(sprites)
                  /\ Len(draw.vPosition) = 2 * draw.count
                  /\ Len(draw.vTextureCoord) = 2 * draw.count
                  /\ \A i \in DOMAIN sprites :
                       /\ TwoTriangles(draw.vPosition, 6 * (i - 1) + 1,
                                       sprites[i].tileCoords)
                       /\ TwoTriangles(draw.vTextureCoord, 6 * (i - 1) + 1,
                                       sprites[i].textureCoords)

\* Two different sprites were drawn in one batch.
C23_Witness ==
  /\ batch.done /\ Len(sprites) = 2
  /\ sprites[1] # sprites[2]
  /\ Len(batch.draws) = 1 /\ batch.draws[1].count = 12

\* All the instructions the entities return, in order.
RECURSIVE AllReturned(_)
AllReturned(of) ==
  IF of = <<>> THEN <<>> ELSE Head(of).instructions \o AllReturned(Tail(of))

\* C34: entityGroup.render gives renderSprites every instruction its
\* entities return, each once: all those of an array an entity returns and
\* the one of an entity that returns a single instruction; and all of them
\* are drawn.
C34_EveryInstructionBatched ==
  batch.done
    => /\ sprites = AllReturned(returns)
       /\ AllReturned(returns) # <<>>
            => /\ Len(batch.draws) = 1
               /\ batch.draws[1].count = 6 * Len(AllReturned(returns))

(***************************************************************************)
(*                          CLAIMS: THE GAME                               *)
(***************************************************************************)

\* C27: every call of the ticker's tick callback in Game runs the physics
\* step exactly once: physicsEngine.tick() has run as often as game.tick().
C27_PhysicsEveryTick ==
  theGame.physicsTicks = theGame.ticks

=============================================================================
